---- MODULE Spec2Model ----
(***************************************************************************)
(* Handle lifecycle of the RTI Connector Go binding: one Connector, the    *)
(* Inputs and Outputs obtained from it, and the Samples, Infos and         *)
(* Instance accessors that reach the native layer through them.            *)
(*                                                                         *)
(* Spec       : one goroutine, every public operation is one action.       *)
(* SpecConc   : Delete executed statement by statement by several          *)
(*              goroutines, each either unsynchronized or holding the      *)
(*              caller's mutex over its whole call.                        *)
(* SpecAccess : a Connector with one Input; samples reach its reader and   *)
(*              the caller reads them at any index.                        *)
(* SpecWait   : Connector.Wait as a blocking call, with time passing and   *)
(*              data arriving; time and the native return are weakly fair. *)
(* SpecData   : a Connector with one Output and one matched Input; field   *)
(*              values are staged, written, read or taken, and got back.   *)
(***************************************************************************)
EXTENDS Integers, Sequences, FiniteSets, TLC

VARIABLES
    conn,          \* the caller's *Connector: "unset", "nil" or "ref"
    native,        \* Connector.native: "live" or "nil"
    Inputs,        \* Connector.Inputs
    Outputs,       \* Connector.Outputs
    inputs,        \* the *Input handles returned to the caller
    outputs,       \* the *Output handles returned to the caller
    heap,          \* C heap of name buffers: heap[b] = number of C.free calls on buffer b
    destroyCount,  \* number of RTI_Connector_delete calls on the native root object
    crashed,       \* the process faulted (Go panic or native fault)
    last,          \* what the last completed operation did and returned
    pc,            \* per goroutine: position inside Delete
    loc,           \* per goroutine: the slice being ranged over and the loop index
    mutex,         \* holder of the caller's mutex, 0 when free
    queue,         \* per Input: number of samples in its native reader's queue
    samples,       \* per Input: number of samples its last Read or Take made available
    waiting,       \* the native wait a Wait call is blocked in
    staged,        \* per writer name: the field values of its Instance, not yet written
    lastSet,       \* per writer name: per field, the value the caller set last with success
    readerData,    \* per Input: the samples in its native reader's queue, oldest first
    sampleData,    \* per Input: the samples its last Read or Take made available
    matched        \* discovery has matched the writer with the readers

vars == <<conn, native, Inputs, Outputs, inputs, outputs, heap, destroyCount,
          crashed, last, pc, loc, mutex, queue, samples, waiting,
          staged, lastSet, readerData, sampleData, matched>>

connVars == <<conn, native, Inputs, Outputs, inputs, outputs, heap, destroyCount>>
goVars == <<pc, loc, mutex>>
dataVars == <<queue, samples, staged, lastSet, readerData, sampleData, matched>>
stageVars == <<staged, lastSet>>
flowVars == <<queue, samples, readerData, sampleData, matched>>

----------------------------------------------------------------------------
(* Bounds *)

MaxLookups == 2
NumGoroutines == 2
MaxSamples == 1
MaxRetCode == 12
MaxTimeout == 2

----------------------------------------------------------------------------
(* Program constants and input domains *)

DDSRetCodeNoData == 11
DDSRetCodeTimeout == 10
DDSRetCodeOK == 0

\* a status code of the native layer that is none of the three above
RetCodeError == 1
RetCodes == {DDSRetCodeOK, DDSRetCodeTimeout, DDSRetCodeNoData, RetCodeError}

\* the status codes checkRetcode can be handed
StatusCodes == 0..MaxRetCode

\* outcome of a native call that does not return: the process faults
Fault == -1

ReaderNames == {"MySubscriber::MyReader"}
WriterNames == {"MyPublisher::MyWriter"}
LookupNames == ReaderNames \cup WriterNames \cup {"NonExistent"}

\* last-error texts the native layer may hold: none, or some detail
NativeMessages == {<<>>, <<"native", "failure">>}

Goroutines == 1..NumGoroutines

\* the topic type of the writer and the reader: a number held as a double, a
\* string and a boolean; a record of the type starts from the default values
TopicFields == {"x", "st", "b"}
FieldKind(fieldName) ==
    IF fieldName = "x" THEN "number" ELSE IF fieldName = "st" THEN "string" ELSE "boolean"
DefaultFields == [x |-> 0, st |-> "", b |-> FALSE]

\* a sample identity as the JSON object of the native layer: the GUID of a
\* writer, a list of GUIDLen bytes, and a sequence number
GUIDLen == 16
JSONIdentity(guid, seq) == [writer_guid |-> guid, sequence_number |-> seq]

\* the related identity of a sample written without one, and the identity
\* the native layer gives a sample written without one; which GUID and
\* sequence number it assigns is not followed here, one value stands for it
UnknownIdentity == JSONIdentity([k \in 1..GUIDLen |-> 0], -1)
AssignedIdentity == JSONIdentity([k \in 1..GUIDLen |-> 255], 1)

\* the parameters of a write as a JSON object, and the object with no member
NoParams == [k \in {} |-> 0]

\* a sample: the field values the writer published, and with them what the
\* caller had last set in each field when it wrote; its identity and the
\* identity of the sample it relates to
DefaultSample ==
    [data |-> DefaultFields, set |-> DefaultFields,
     identity |-> AssignedIdentity, related |-> UnknownIdentity]

\* the topic of a reader or a writer of the configuration
Topic(name) ==
    IF name \in {"RequestPublisher::RequestWriter", "RequestSubscriber::RequestReader"}
    THEN "request"
    ELSE IF name \in {"ReplyPublisher::ReplyWriter", "ReplySubscriber::ReplyReader"}
    THEN "reply"
    ELSE "test"

\* json.Unmarshal of an identity object into the struct Identity: WriterGUID
\* is an array of GUIDLen bytes, which takes the leading elements of the
\* list and is zero where the list ends early
ToIdentity(obj) ==
    [WriterGUID |-> [k \in 1..GUIDLen |->
                        IF k <= Len(obj.writer_guid) THEN obj.writer_guid[k] ELSE 0],
     SequenceNumber |-> obj.sequence_number]

\* a Go struct is a record of its exported fields, and a JSON object a
\* function from member names to values; the json tag of a field gives the
\* member name, and a field named Extra has no member in the topic type
JSONName(goField) ==
    IF goField = "X" THEN "x" ELSE IF goField = "St" THEN "st"
    ELSE IF goField = "B" THEN "b" ELSE "extra"

\* json.Marshal of a struct: one member per field, under the field's tag
Marshal(v) ==
    [m \in {JSONName(f) : f \in DOMAIN v} |->
        v[CHOOSE f \in DOMAIN v : JSONName(f) = m]]

\* json.Unmarshal into the struct out: a field takes the member of its tag
\* when the object has one and keeps its value otherwise
Unmarshal(obj, out) ==
    [f \in DOMAIN out |-> IF JSONName(f) \in DOMAIN obj THEN obj[JSONName(f)] ELSE out[f]]

\* an error is the sequence of words of its message; nil is the empty sequence
NoErr == <<>>
ErrNoData == <<"DDS", "Exception:", "No", "Data">>
ErrTimeout == <<"DDS", "Exception:", "Timeout">>
ErrPanic == <<"panic:", "nil", "pointer", "dereference">>

\* strings.Contains(err.Error(), word) for a whole word
Contains(err, word) == \E i \in 1..Len(err) : err[i] = word

----------------------------------------------------------------------------
(* checkRetcode *)

\* checkRetcode with the NoData and Timeout cases exchanged
checkRetcode_swapped(retcode, errMsg) ==
    IF retcode = DDSRetCodeOK THEN NoErr
    ELSE IF retcode = DDSRetCodeNoData THEN ErrTimeout
    ELSE IF retcode = DDSRetCodeTimeout THEN ErrNoData
    ELSE IF errMsg = <<>>
         THEN <<"DDS", "Exception:", "error", "code", ToString(retcode),
                "(no", "detailed", "message", "available", "from", "RTI", "Connector)">>
         ELSE <<"DDS", "Exception:">> \o errMsg \o <<"(error", "code", ToString(retcode), ")">>

\* checkRetcode: errMsg is what RTI_Connector_get_last_error_message returns
checkRetcode(retcode, errMsg) ==
    IF retcode = DDSRetCodeOK THEN NoErr
    ELSE IF retcode = DDSRetCodeNoData THEN ErrNoData
    ELSE IF retcode = DDSRetCodeTimeout THEN ErrTimeout
    ELSE IF errMsg = <<>>
         THEN <<"DDS", "Exception:", "error", "code", ToString(retcode),
                "(no", "detailed", "message", "available", "from", "RTI", "Connector)">>
         ELSE <<"DDS", "Exception:">> \o errMsg \o <<"(error", "code", ToString(retcode), ")">>

----------------------------------------------------------------------------
(* The native layer as seen through the boundary *)

\* a native call: the entry point and the handle it was given
\*   self = "live"   the root handle of an existing native connector
\*          "nil"    an absent root handle
\*          "entity" a reader or writer pointer of an existing connector
\*          "stale"  a reader or writer pointer whose connector was destroyed
\*          "none"   the entry point takes no handle
\* and, for an entry point that addresses one sample, the 1-based index it
\* was given: args = <<index>>
NativeCall(fn, self) == [fn |-> fn, self |-> self, args |-> <<>>]
NativeCallAt(fn, self, nativeIndex) == [fn |-> fn, self |-> self, args |-> <<nativeIndex>>]

\* what a native call may answer: a status code, or a fault when it is handed
\* a handle that does not designate native state
NativeOutcomes(self) ==
    IF self \in {"live", "entity", "none"} THEN RetCodes ELSE RetCodes \cup {Fault}

\* the pointer value a child passes for its own native entity
EntityPtr == IF destroyCount = 0 THEN "entity" ELSE "stale"

\* the connector state an operation starts from
Pre == [native |-> native, Inputs |-> Inputs, Outputs |-> Outputs,
        inputs |-> inputs, outputs |-> outputs,
        heap |-> heap, destroyCount |-> destroyCount, samples |-> samples,
        staged |-> staged, readerData |-> readerData, sampleData |-> sampleData]

\* the record of a completed operation; args holds the index the caller
\* passed, if the operation takes one, transient the number of C.free calls
\* made on each transient C string the operation allocated, retcodes the
\* status its native call answered and errMsg the last-error text of the
\* native layer at that moment; field and value are the field name and the
\* value the caller passed to an accessor
Done(op, recv, err, ret, calls, pre) ==
    [op |-> op, recv |-> recv, err |-> err, ret |-> ret, calls |-> calls, pre |-> pre,
     args |-> <<>>, transient |-> <<>>, retcodes |-> <<>>, errMsg |-> <<>>,
     field |-> "", value |-> 0]

\* the native calls checkRetcode makes for a status code
RetcodeCalls(out) ==
    IF out \in {DDSRetCodeOK, DDSRetCodeNoData, DDSRetCodeTimeout, Fault} THEN <<>>
    ELSE <<NativeCall("RTI_Connector_get_last_error_message", "none")>>

\* an operation finishes: its record is kept, and a fault ends the process
Finish(rec) ==
    /\ last' = rec
    /\ crashed' = (rec.err = ErrPanic)

\* a Deferred that frees the transient C strings only when the operation
\* returns nil
Deferred_onSuccess(rec, n) ==
    [rec EXCEPT !.transient = [k \in 1..n |-> IF rec.err = NoErr THEN 1 ELSE 0]]

\* rec is the record of an operation that allocated n transient C strings,
\* each with C.CString followed by defer C.free: the deferred call frees the
\* string once when the operation returns, with or without an error, and
\* while a Go panic unwinds; it does not run when the process dies inside
\* the native call
Deferred(rec, n) ==
    [rec EXCEPT !.transient = [k \in 1..n |-> IF rec.err = ErrPanic /\ rec.calls # <<>>
                                              THEN 0 ELSE 1]]

\* a Go nil pointer dereference inside op
Panic(op, recv) == Finish(Done(op, recv, ErrPanic, 0, <<>>, Pre))

\* op returns err without reaching the native layer
Reject(op, recv, err, ret) == Finish(Done(op, recv, err, ret, <<>>, Pre))

\* the last-error texts that can accompany a status code: the text is read
\* only for a code other than OK, NoData and Timeout
MessagesFor(out) ==
    IF out \in {DDSRetCodeOK, DDSRetCodeNoData, DDSRetCodeTimeout, Fault} THEN {<<>>}
    ELSE NativeMessages

\* op makes the one native call fn on handle self and returns checkRetcode of
\* the status the native layer answers; okRet is its value on success and
\* errRet its value otherwise; a returned native string is released by
\* RTI_Connector_free_string
Answer(op, recv, call, out, errMsg, okRet, errRet, freeString) ==
    IF out = Fault
    THEN Done(op, recv, ErrPanic, 0, <<call>>, Pre)
    ELSE [Done(op, recv, checkRetcode(out, errMsg),
               IF checkRetcode(out, errMsg) = NoErr THEN okRet ELSE errRet,
               <<call>> \o RetcodeCalls(out) \o
                 (IF freeString /\ checkRetcode(out, errMsg) = NoErr
                  THEN <<NativeCall("RTI_Connector_free_string", "none")>>
                  ELSE <<>>),
               Pre)
            EXCEPT !.retcodes = <<out>>, !.errMsg = errMsg]

Dispatch(op, recv, fn, self, okRet, errRet, freeString) ==
    \E out \in NativeOutcomes(self) : \E errMsg \in MessagesFor(out) :
        Finish(Answer(op, recv, NativeCall(fn, self), out, errMsg, okRet, errRet, freeString))

\* what a native call that addresses sample nativeIndex (1-based) of an Input
\* may answer: success only for an index inside the samples the Input holds
IndexedOutcomes(self, recv, nativeIndex) ==
    IF self \in {"nil", "stale"} THEN RetCodes \cup {Fault}
    ELSE IF nativeIndex >= 1 /\ nativeIndex <= samples[recv] THEN RetCodes
    ELSE RetCodes \ {DDSRetCodeOK}

\* op rejects the call with index `index` locally
RejectAt(op, recv, index, err, ret) ==
    Finish([Done(op, recv, err, ret, <<>>, Pre) EXCEPT !.args = <<index>>])

\* a Go nil pointer dereference inside an indexed op
PanicAt(op, recv, index) ==
    Finish([Done(op, recv, ErrPanic, 0, <<>>, Pre) EXCEPT !.args = <<index>>])

\* a Go nil pointer dereference inside op after it allocated n transient
\* C strings
PanicAfter(op, recv, n) == Finish(Deferred(Done(op, recv, ErrPanic, 0, <<>>, Pre), n))

\* a DispatchAt that passes the index of the caller as it is
DispatchAt_zeroBased(op, recv, index, fn, self, okRet, errRet, freeString) ==
    \E out \in IndexedOutcomes(self, recv, index) : \E errMsg \in MessagesFor(out) :
        Finish(Deferred([Answer(op, recv, NativeCallAt(fn, self, index), out, errMsg,
                                okRet, errRet, freeString) EXCEPT !.args = <<index>>], 1))

\* op makes the one native call fn for the sample at the caller's 0-based
\* index, which it passes as index + 1 with the C string of a member name
DispatchAt(op, recv, index, fn, self, okRet, errRet, freeString) ==
    \E out \in IndexedOutcomes(self, recv, index + 1) : \E errMsg \in MessagesFor(out) :
        Finish(Deferred([Answer(op, recv, NativeCallAt(fn, self, index + 1), out, errMsg,
                                okRet, errRet, freeString) EXCEPT !.args = <<index>>], 1))

----------------------------------------------------------------------------
(* Connector *)

\* no Wait call is blocked in the native layer
NotWaiting == [blocked |-> FALSE, timeoutMs |-> 0, elapsed |-> 0, data |-> FALSE]

Init ==
    /\ conn = "unset"
    /\ native = "nil"
    /\ Inputs = <<>>
    /\ Outputs = <<>>
    /\ inputs = <<>>
    /\ outputs = <<>>
    /\ heap = <<>>
    /\ destroyCount = 0
    /\ crashed = FALSE
    /\ pc = [g \in Goroutines |-> "idle"]
    /\ loc = [g \in Goroutines |-> [slice |-> <<>>, i |-> 0, locked |-> FALSE]]
    /\ mutex = 0
    /\ queue = <<>>
    /\ samples = <<>>
    /\ staged = [n \in WriterNames |-> DefaultFields]
    /\ lastSet = [n \in WriterNames |-> DefaultFields]
    /\ readerData = <<>>
    /\ sampleData = <<>>
    /\ matched = FALSE
    /\ waiting = NotWaiting
    /\ last = Done("none", 0, NoErr, 0, <<>>, Pre)

\* receivers a caller can name for a Connector method: the nil pointer (0) or
\* the Connector it holds (1)
ConnReceivers == IF conn = "ref" THEN {0, 1} ELSE {0}

\* no goroutine is inside a call
Quiescent == \A g \in Goroutines : pc[g] = "idle"

\* NewConnector that hands out the Connector it built also when the native
\* layer created nothing
NewConnector_partial(found) ==
    /\ ~crashed
    /\ Quiescent
    /\ conn # "ref"
    /\ IF found
       THEN /\ conn' = "ref"
            /\ native' = "live"
            /\ Finish([Done("NewConnector", 0, NoErr, 1,
                            <<NativeCall("RTI_Connector_new", "none")>>, Pre)
                          EXCEPT !.transient = <<1, 1>>])
       ELSE /\ conn' = "ref"
            /\ native' = native
            /\ Finish([Done("NewConnector", 0,
                            <<"invalid", "participant", "profile,", "xml", "path", "or", "xml", "profile">>,
                            1, <<NativeCall("RTI_Connector_new", "none")>>, Pre)
                          EXCEPT !.transient = <<1, 1>>])
    /\ UNCHANGED <<Inputs, Outputs, inputs, outputs, heap, destroyCount, goVars, dataVars, waiting>>

\* NewConnector: found tells whether the native layer finds the profile in
\* the configuration; the C strings of configName and url are freed by the
\* deferred C.free calls on either return
NewConnector(found) ==
    /\ ~crashed
    /\ Quiescent
    /\ conn # "ref"
    /\ IF found
       THEN /\ conn' = "ref"
            /\ native' = "live"
            /\ Finish([Done("NewConnector", 0, NoErr, 1,
                            <<NativeCall("RTI_Connector_new", "none")>>, Pre)
                          EXCEPT !.transient = <<1, 1>>])
       ELSE /\ conn' = "nil"
            /\ native' = native
            /\ Finish([Done("NewConnector", 0,
                            <<"invalid", "participant", "profile,", "xml", "path", "or", "xml", "profile">>,
                            0, <<NativeCall("RTI_Connector_new", "none")>>, Pre)
                          EXCEPT !.transient = <<1, 1>>])
    /\ UNCHANGED <<Inputs, Outputs, inputs, outputs, heap, destroyCount, goVars, dataVars, waiting>>

\* Connector.isValid testing the receiver only
Connector_isValid_nilonly(recv) ==
    IF recv = 0 THEN <<"connector", "is", "null">> ELSE NoErr

\* Connector.isValid
Connector_isValid(recv) ==
    IF recv = 0 THEN <<"connector", "is", "null">>
    ELSE IF native = "nil" THEN <<"connector", "has", "been", "deleted">>
    ELSE NoErr

\* the C.free calls of Delete's two range loops, applied to the heap
RECURSIVE FreeAll(_, _)
FreeAll(h, handles) ==
    IF handles = <<>> THEN h
    ELSE FreeAll([h EXCEPT ![Head(handles).nameCStr] = @ + 1], Tail(handles))

\* Delete that answers a nil Connector with nil
Delete_nilok(recv) ==
    /\ ~crashed
    /\ Quiescent
    /\ IF recv = 0 \/ native = "nil"
       THEN /\ Reject("Delete", recv, NoErr, 0)
            /\ UNCHANGED <<native, Inputs, Outputs, heap, destroyCount>>
       ELSE /\ heap' = FreeAll(FreeAll(heap, Inputs), Outputs)
            /\ destroyCount' = destroyCount + 1
            /\ native' = "nil"
            /\ Inputs' = <<>>
            /\ Outputs' = <<>>
            /\ Finish(Done("Delete", recv, NoErr, 0,
                           <<NativeCall("RTI_Connector_delete", native)>>, Pre))
    /\ UNCHANGED <<conn, inputs, outputs, goVars, dataVars, waiting>>

\* Delete without the "already deleted" test
Delete_nocheck(recv) ==
    /\ ~crashed
    /\ Quiescent
    /\ IF recv = 0
       THEN /\ Reject("Delete", recv, <<"connector", "is", "null">>, 0)
            /\ UNCHANGED <<native, Inputs, Outputs, heap, destroyCount>>
       ELSE /\ heap' = FreeAll(FreeAll(heap, Inputs), Outputs)
            /\ destroyCount' = destroyCount + 1
            /\ native' = "nil"
            /\ Inputs' = <<>>
            /\ Outputs' = <<>>
            /\ Finish(Done("Delete", recv, NoErr, 0,
                           <<NativeCall("RTI_Connector_delete", native)>>, Pre))
    /\ UNCHANGED <<conn, inputs, outputs, goVars, dataVars, waiting>>

\* Delete that frees the name buffers of the Inputs only
Delete_leakOutputs(recv) ==
    /\ ~crashed
    /\ Quiescent
    /\ IF recv = 0
       THEN /\ Reject("Delete", recv, <<"connector", "is", "null">>, 0)
            /\ UNCHANGED <<native, Inputs, Outputs, heap, destroyCount>>
       ELSE IF native = "nil"
       THEN /\ Reject("Delete", recv, NoErr, 0)
            /\ UNCHANGED <<native, Inputs, Outputs, heap, destroyCount>>
       ELSE /\ heap' = FreeAll(heap, Inputs)
            /\ destroyCount' = destroyCount + 1
            /\ native' = "nil"
            /\ Inputs' = <<>>
            /\ Outputs' = <<>>
            /\ Finish(Done("Delete", recv, NoErr, 0,
                           <<NativeCall("RTI_Connector_delete", native)>>, Pre))
    /\ UNCHANGED <<conn, inputs, outputs, goVars, dataVars, waiting>>

Delete(recv) ==
    /\ ~crashed
    /\ Quiescent
    /\ IF recv = 0
       THEN /\ Reject("Delete", recv, <<"connector", "is", "null">>, 0)
            /\ UNCHANGED <<native, Inputs, Outputs, heap, destroyCount>>
       ELSE IF native = "nil"
       THEN /\ Reject("Delete", recv, NoErr, 0)
            /\ UNCHANGED <<native, Inputs, Outputs, heap, destroyCount>>
       ELSE /\ heap' = FreeAll(FreeAll(heap, Inputs), Outputs)
            /\ destroyCount' = destroyCount + 1
            /\ native' = "nil"
            /\ Inputs' = <<>>
            /\ Outputs' = <<>>
            /\ Finish(Done("Delete", recv, NoErr, 0,
                           <<NativeCall("RTI_Connector_delete", native)>>, Pre))
    /\ UNCHANGED <<conn, inputs, outputs, goVars, dataVars, waiting>>

\* newOutput that builds the handle and returns it without appending it to
\* connector.Outputs
newOutput_noregister(recv, outputName) ==
    IF outputName \in WriterNames
    THEN /\ heap' = Append(heap, 0)
         /\ Outputs' = Outputs
         /\ outputs' = Append(outputs, [native |-> "writer", connector |-> "ref",
                                        name |-> outputName, nameCStr |-> Len(heap) + 1,
                                        Instance |-> "ref"])
         /\ Finish(Done("GetOutput", recv, NoErr, Len(outputs) + 1,
                        <<NativeCall("RTI_Connector_get_datawriter", native)>>, Pre))
    ELSE /\ heap' = Append(heap, 1)
         /\ UNCHANGED <<Outputs, outputs>>
         /\ Finish(Done("GetOutput", recv,
                        <<"invalid", "Publication::DataWriter", "name">>, 0,
                        <<NativeCall("RTI_Connector_get_datawriter", native)>>, Pre))

\* newOutput: the name buffer is allocated, the writer is looked up, and the
\* buffer is freed again when the lookup fails
newOutput(recv, outputName) ==
    IF outputName \in WriterNames
    THEN /\ heap' = Append(heap, 0)
         /\ Outputs' = Append(Outputs, [native |-> "writer", connector |-> "ref",
                                        name |-> outputName, nameCStr |-> Len(heap) + 1,
                                        Instance |-> "ref"])
         /\ outputs' = Append(outputs, [native |-> "writer", connector |-> "ref",
                                        name |-> outputName, nameCStr |-> Len(heap) + 1,
                                        Instance |-> "ref"])
         /\ Finish(Done("GetOutput", recv, NoErr, Len(outputs) + 1,
                        <<NativeCall("RTI_Connector_get_datawriter", native)>>, Pre))
    ELSE /\ heap' = Append(heap, 1)
         /\ UNCHANGED <<Outputs, outputs>>
         /\ Finish(Done("GetOutput", recv,
                        <<"invalid", "Publication::DataWriter", "name">>, 0,
                        <<NativeCall("RTI_Connector_get_datawriter", native)>>, Pre))

\* newInput whose error path returns without freeing the name buffer
newInput_leak(recv, inputName) ==
    IF inputName \in ReaderNames
    THEN /\ heap' = Append(heap, 0)
         /\ Inputs' = Append(Inputs, [native |-> "reader", connector |-> "ref",
                                      name |-> inputName, nameCStr |-> Len(heap) + 1,
                                      Samples |-> "ref", Infos |-> "ref"])
         /\ inputs' = Append(inputs, [native |-> "reader", connector |-> "ref",
                                      name |-> inputName, nameCStr |-> Len(heap) + 1,
                                      Samples |-> "ref", Infos |-> "ref"])
         /\ queue' = Append(queue, 0)
         /\ samples' = Append(samples, 0)
         /\ readerData' = Append(readerData, <<>>)
         /\ sampleData' = Append(sampleData, <<>>)
         /\ UNCHANGED <<staged, lastSet, matched>>
         /\ Finish(Done("GetInput", recv, NoErr, Len(inputs) + 1,
                        <<NativeCall("RTI_Connector_get_datareader", native)>>, Pre))
    ELSE /\ heap' = Append(heap, 0)
         /\ UNCHANGED <<Inputs, inputs, dataVars>>
         /\ Finish(Done("GetInput", recv,
                        <<"invalid", "Subscription::DataReader", "name">>, 0,
                        <<NativeCall("RTI_Connector_get_datareader", native)>>, Pre))

\* newInput
newInput(recv, inputName) ==
    IF inputName \in ReaderNames
    THEN /\ heap' = Append(heap, 0)
         /\ Inputs' = Append(Inputs, [native |-> "reader", connector |-> "ref",
                                      name |-> inputName, nameCStr |-> Len(heap) + 1,
                                      Samples |-> "ref", Infos |-> "ref"])
         /\ inputs' = Append(inputs, [native |-> "reader", connector |-> "ref",
                                      name |-> inputName, nameCStr |-> Len(heap) + 1,
                                      Samples |-> "ref", Infos |-> "ref"])
         /\ queue' = Append(queue, 0)
         /\ samples' = Append(samples, 0)
         /\ readerData' = Append(readerData, <<>>)
         /\ sampleData' = Append(sampleData, <<>>)
         /\ UNCHANGED <<staged, lastSet, matched>>
         /\ Finish(Done("GetInput", recv, NoErr, Len(inputs) + 1,
                        <<NativeCall("RTI_Connector_get_datareader", native)>>, Pre))
    ELSE /\ heap' = Append(heap, 1)
         /\ UNCHANGED <<Inputs, inputs, dataVars>>
         /\ Finish(Done("GetInput", recv,
                        <<"invalid", "Subscription::DataReader", "name">>, 0,
                        <<NativeCall("RTI_Connector_get_datareader", native)>>, Pre))

GetOutput(recv, outputName) ==
    /\ ~crashed
    /\ Quiescent
    /\ IF Connector_isValid(recv) # NoErr
       THEN /\ Reject("GetOutput", recv, Connector_isValid(recv), 0)
            /\ UNCHANGED <<heap, Outputs, outputs>>
       ELSE /\ Len(heap) < MaxLookups
            /\ newOutput(recv, outputName)
    /\ UNCHANGED <<conn, native, Inputs, inputs, destroyCount, goVars, dataVars, waiting>>

GetInput(recv, inputName) ==
    /\ ~crashed
    /\ Quiescent
    /\ IF Connector_isValid(recv) # NoErr
       THEN /\ Reject("GetInput", recv, Connector_isValid(recv), 0)
            /\ UNCHANGED <<heap, Inputs, inputs, dataVars>>
       ELSE /\ Len(heap) < MaxLookups
            /\ newInput(recv, inputName)
    /\ UNCHANGED <<conn, native, Outputs, outputs, destroyCount, goVars, waiting>>

\* Wait that tests the receiver only
Wait_unchecked(recv) ==
    /\ ~crashed
    /\ Quiescent
    /\ IF recv = 0
       THEN Reject("Wait", recv, <<"connector", "is", "null">>, 0)
       ELSE Dispatch("Wait", recv, "RTI_Connector_wait_for_data", native, 0, 0, FALSE)
    /\ UNCHANGED <<connVars, goVars, dataVars, waiting>>

Wait(recv) ==
    /\ ~crashed
    /\ Quiescent
    /\ IF Connector_isValid(recv) # NoErr
       THEN Reject("Wait", recv, Connector_isValid(recv), 0)
       ELSE Dispatch("Wait", recv, "RTI_Connector_wait_for_data", native, 0, 0, FALSE)
    /\ UNCHANGED <<connVars, goVars, dataVars, waiting>>

----------------------------------------------------------------------------
(* Output *)

\* receivers a caller can name for a method of a child handle: the nil
\* pointer (0), a zero-valued struct (-1), or a handle it was given
ZeroRef == -1
ZeroHandle == [native |-> "nil", connector |-> "nil", name |-> "", nameCStr |-> 0,
               Samples |-> "nil", Infos |-> "nil", Instance |-> "nil"]
OutputReceivers == {ZeroRef, 0} \cup (1..Len(outputs))
InputReceivers == {ZeroRef, 0} \cup (1..Len(inputs))
OutputAt(r) == IF r = ZeroRef THEN ZeroHandle ELSE outputs[r]
InputAt(r) == IF r = ZeroRef THEN ZeroHandle ELSE inputs[r]

\* Output.isValid without the test of the root handle
Output_isValid_nodeleted(recv) ==
    IF recv = 0 THEN <<"output", "is", "null">>
    ELSE IF OutputAt(recv).connector = "nil" THEN <<"output", "connector", "is", "null">>
    ELSE NoErr

\* Output.isValid
Output_isValid(recv) ==
    IF recv = 0 THEN <<"output", "is", "null">>
    ELSE IF OutputAt(recv).connector = "nil" THEN <<"output", "connector", "is", "null">>
    ELSE IF native = "nil" THEN <<"connector", "has", "been", "deleted">>
    ELSE NoErr

\* the writer of Output recv and the reader of Input i have discovered each
\* other: they are on the same topic
Matches(recv, i) == matched /\ Topic(OutputAt(recv).name) = Topic(inputs[i].name)

\* what RTI_Connector_write may answer: success only while every matched
\* reader has room for one more sample
WriteOutcomes(self, recv) ==
    IF \E i \in 1..Len(queue) : Matches(recv, i) /\ queue[i] >= MaxSamples
    THEN NativeOutcomes(self) \ {DDSRetCodeOK}
    ELSE NativeOutcomes(self)

\* the sample a write publishes: the staged record of the writer, under the
\* identity and the related identity of the parameters where they name one
Written(recv, params) ==
    [data |-> staged[OutputAt(recv).name],
     set |-> lastSet[OutputAt(recv).name],
     identity |-> IF "identity" \in DOMAIN params THEN params.identity
                  ELSE AssignedIdentity,
     related |-> IF "related_sample_identity" \in DOMAIN params
                 THEN params.related_sample_identity ELSE UnknownIdentity]

\* the native write: on success the staged record of the writer becomes one
\* more sample in the queue of every matched reader; the record stays staged
Publish(op, recv, self, params) ==
    \E out \in WriteOutcomes(self, recv) : \E errMsg \in MessagesFor(out) :
        /\ Finish(Deferred([Answer(op, recv, NativeCall("RTI_Connector_write", self), out,
                                   errMsg, 0, 0, FALSE) EXCEPT !.value = params],
                           IF op = "WriteWithParams" THEN 1 ELSE 0))
        /\ readerData' = IF out = DDSRetCodeOK
                          THEN [i \in 1..Len(readerData) |->
                                  IF Matches(recv, i)
                                  THEN Append(readerData[i], Written(recv, params))
                                  ELSE readerData[i]]
                          ELSE readerData
        /\ queue' = IF out = DDSRetCodeOK
                     THEN [i \in 1..Len(queue) |->
                             IF Matches(recv, i) THEN queue[i] + 1 ELSE queue[i]]
                     ELSE queue
        /\ UNCHANGED <<samples, sampleData, matched, stageVars>>

Output_Write(recv) ==
    /\ ~crashed
    /\ Quiescent
    /\ IF Output_isValid(recv) # NoErr
       THEN /\ Reject("Write", recv, Output_isValid(recv), 0)
            /\ UNCHANGED dataVars
       ELSE Publish("Write", recv, native, NoParams)
    /\ UNCHANGED <<connVars, goVars, waiting>>

\* WriteWithParams hands the JSON text of the parameters to the native
\* write as it got it
Output_WriteWithParams(recv, params) ==
    /\ ~crashed
    /\ Quiescent
    /\ IF Output_isValid(recv) # NoErr
       THEN /\ Reject("WriteWithParams", recv, Output_isValid(recv), 0)
            /\ UNCHANGED dataVars
       ELSE Publish("WriteWithParams", recv, native, params)
    /\ UNCHANGED <<connVars, goVars, waiting>>

\* a ClearMembers that returns nil without the call of RTI_Connector_clear
Output_ClearMembers_nocall(recv) ==
    /\ ~crashed
    /\ Quiescent
    /\ IF Output_isValid(recv) # NoErr
       THEN Reject("ClearMembers", recv, Output_isValid(recv), 0)
       ELSE Reject("ClearMembers", recv, NoErr, 0)
    /\ UNCHANGED <<connVars, goVars, dataVars, waiting>>

Output_ClearMembers(recv) ==
    /\ ~crashed
    /\ Quiescent
    /\ IF Output_isValid(recv) # NoErr
       THEN /\ Reject("ClearMembers", recv, Output_isValid(recv), 0)
            /\ UNCHANGED stageVars
       ELSE \E out \in NativeOutcomes(native) : \E errMsg \in MessagesFor(out) :
              /\ Finish(Answer("ClearMembers", recv, NativeCall("RTI_Connector_clear", native),
                               out, errMsg, 0, 0, FALSE))
              /\ staged' = IF out = DDSRetCodeOK
                            THEN [staged EXCEPT ![OutputAt(recv).name] = DefaultFields]
                            ELSE staged
              /\ lastSet' = IF out = DDSRetCodeOK
                             THEN [lastSet EXCEPT ![OutputAt(recv).name] = DefaultFields]
                             ELSE lastSet
    /\ UNCHANGED <<connVars, goVars, flowVars, waiting>>

\* the match-count deltas the native layer may report
CountChanges == {-1, 0, 1}

Output_WaitForSubscriptions(recv) ==
    /\ ~crashed
    /\ Quiescent
    /\ IF Output_isValid(recv) # NoErr
       THEN Reject("WaitForSubscriptions", recv, Output_isValid(recv), -1)
       ELSE \E currentCountChange \in CountChanges :
              Dispatch("WaitForSubscriptions", recv, "RTI_Connector_wait_for_matched_subscription",
                       EntityPtr, currentCountChange, currentCountChange, FALSE)
    /\ UNCHANGED <<connVars, goVars, dataVars, waiting>>

Output_GetMatchedSubscriptions(recv) ==
    /\ ~crashed
    /\ Quiescent
    /\ IF Output_isValid(recv) # NoErr
       THEN Reject("GetMatchedSubscriptions", recv, Output_isValid(recv), 0)
       ELSE Dispatch("GetMatchedSubscriptions", recv, "RTI_Connector_get_matched_subscriptions",
                     EntityPtr, 1, 0, TRUE)
    /\ UNCHANGED <<connVars, goVars, dataVars, waiting>>

----------------------------------------------------------------------------
(* Input, as in input.go: only the receiver is checked *)

\* what RTI_Connector_read and RTI_Connector_take may answer: success only
\* when the reader's queue holds a sample
FetchOutcomes(self, recv) ==
    IF self \in {"nil", "stale"} THEN RetCodes \cup {Fault}
    ELSE IF queue[recv] > 0 THEN RetCodes
    ELSE RetCodes \ {DDSRetCodeOK}

\* the native call of Read (take = FALSE) and Take (take = TRUE): on success
\* the samples of the queue become the samples of the Input, and Take removes
\* them from the queue; with nothing to read the Input holds no sample
Fetch(op, recv, fn, self, take) ==
    \E out \in FetchOutcomes(self, recv) : \E errMsg \in MessagesFor(out) :
        /\ Finish(Answer(op, recv, NativeCall(fn, self), out, errMsg, 0, 0, FALSE))
        /\ samples' = IF out = DDSRetCodeOK THEN [samples EXCEPT ![recv] = queue[recv]]
                      ELSE IF out = DDSRetCodeNoData THEN [samples EXCEPT ![recv] = 0]
                      ELSE samples
        /\ queue' = IF take /\ out = DDSRetCodeOK THEN [queue EXCEPT ![recv] = 0] ELSE queue
        /\ sampleData' = IF out = DDSRetCodeOK
                          THEN [sampleData EXCEPT ![recv] = readerData[recv]]
                          ELSE IF out = DDSRetCodeNoData THEN [sampleData EXCEPT ![recv] = <<>>]
                          ELSE sampleData
        /\ readerData' = IF take /\ out = DDSRetCodeOK
                          THEN [readerData EXCEPT ![recv] = <<>>] ELSE readerData
        /\ UNCHANGED <<staged, lastSet, matched>>

Input_Read(recv) ==
    /\ ~crashed
    /\ Quiescent
    /\ IF recv = 0
       THEN /\ Reject("Read", recv, <<"input", "is", "null">>, 0)
            /\ UNCHANGED dataVars
       ELSE IF InputAt(recv).connector = "nil"
       THEN /\ Panic("Read", recv)
            /\ UNCHANGED dataVars
       ELSE Fetch("Read", recv, "RTI_Connector_read", native, FALSE)
    /\ UNCHANGED <<connVars, goVars, waiting>>

\* a Take that leaves the samples in the reader's queue
Input_Take_asRead(recv) ==
    /\ ~crashed
    /\ Quiescent
    /\ IF recv = 0
       THEN /\ Reject("Take", recv, <<"input", "is", "null">>, 0)
            /\ UNCHANGED dataVars
       ELSE IF InputAt(recv).connector = "nil"
       THEN /\ Panic("Take", recv)
            /\ UNCHANGED dataVars
       ELSE Fetch("Take", recv, "RTI_Connector_take", native, FALSE)
    /\ UNCHANGED <<connVars, goVars, waiting>>

Input_Take(recv) ==
    /\ ~crashed
    /\ Quiescent
    /\ IF recv = 0
       THEN /\ Reject("Take", recv, <<"input", "is", "null">>, 0)
            /\ UNCHANGED dataVars
       ELSE IF InputAt(recv).connector = "nil"
       THEN /\ Panic("Take", recv)
            /\ UNCHANGED dataVars
       ELSE Fetch("Take", recv, "RTI_Connector_take", native, TRUE)
    /\ UNCHANGED <<connVars, goVars, waiting>>

\* the pointer an Input passes for its native reader: nil for a zero-valued
\* struct
ReaderPtr(recv) == IF InputAt(recv).native = "nil" THEN "nil" ELSE EntityPtr

Input_WaitForPublications(recv) ==
    /\ ~crashed
    /\ Quiescent
    /\ IF recv = 0 THEN Reject("WaitForPublications", recv, <<"input", "is", "null">>, -1)
       ELSE \E currentCountChange \in CountChanges :
              Dispatch("WaitForPublications", recv, "RTI_Connector_wait_for_matched_publication",
                       ReaderPtr(recv), currentCountChange, currentCountChange, FALSE)
    /\ UNCHANGED <<connVars, goVars, dataVars, waiting>>

Input_GetMatchedPublications(recv) ==
    /\ ~crashed
    /\ Quiescent
    /\ IF recv = 0 THEN Reject("GetMatchedPublications", recv, <<"input", "is", "null">>, 0)
       ELSE Dispatch("GetMatchedPublications", recv, "RTI_Connector_get_matched_publications",
                     ReaderPtr(recv), 1, 0, TRUE)
    /\ UNCHANGED <<connVars, goVars, dataVars, waiting>>

----------------------------------------------------------------------------
(* Input, as in the variant that validates the Connector first *)

\* Input.isValid
Input_isValid(recv) ==
    IF recv = 0 THEN <<"input", "is", "null">>
    ELSE IF InputAt(recv).connector = "nil" THEN <<"input", "connector", "is", "null">>
    ELSE IF native = "nil" THEN <<"connector", "has", "been", "deleted">>
    ELSE NoErr

Input_Read_checked(recv) ==
    /\ ~crashed
    /\ Quiescent
    /\ IF Input_isValid(recv) # NoErr
       THEN /\ Reject("Read", recv, Input_isValid(recv), 0)
            /\ UNCHANGED dataVars
       ELSE Fetch("Read", recv, "RTI_Connector_read", native, FALSE)
    /\ UNCHANGED <<connVars, goVars, waiting>>

Input_Take_checked(recv) ==
    /\ ~crashed
    /\ Quiescent
    /\ IF Input_isValid(recv) # NoErr
       THEN /\ Reject("Take", recv, Input_isValid(recv), 0)
            /\ UNCHANGED dataVars
       ELSE Fetch("Take", recv, "RTI_Connector_take", native, TRUE)
    /\ UNCHANGED <<connVars, goVars, waiting>>

Input_WaitForPublications_checked(recv) ==
    /\ ~crashed
    /\ Quiescent
    /\ IF Input_isValid(recv) # NoErr
       THEN Reject("WaitForPublications", recv, Input_isValid(recv), -1)
       ELSE \E currentCountChange \in CountChanges :
              Dispatch("WaitForPublications", recv, "RTI_Connector_wait_for_matched_publication",
                       EntityPtr, currentCountChange, currentCountChange, FALSE)
    /\ UNCHANGED <<connVars, goVars, dataVars, waiting>>

Input_GetMatchedPublications_checked(recv) ==
    /\ ~crashed
    /\ Quiescent
    /\ IF Input_isValid(recv) # NoErr
       THEN Reject("GetMatchedPublications", recv, Input_isValid(recv), 0)
       ELSE Dispatch("GetMatchedPublications", recv, "RTI_Connector_get_matched_publications",
                     EntityPtr, 1, 0, TRUE)
    /\ UNCHANGED <<connVars, goVars, dataVars, waiting>>

\* a ReturnLoan that also frees the name buffer of its Input
Input_ReturnLoan_releasing(recv) ==
    /\ ~crashed
    /\ Quiescent
    /\ IF recv = 0 THEN Reject("ReturnLoan", recv, <<"input", "is", "null">>, 0)
       ELSE IF InputAt(recv).connector = "nil" THEN Panic("ReturnLoan", recv)
       ELSE Dispatch("ReturnLoan", recv, "RTI_Connector_return_loan", native, 0, 0, FALSE)
    /\ heap' = IF recv = 0 THEN heap ELSE [heap EXCEPT ![InputAt(recv).nameCStr] = @ + 1]
    /\ UNCHANGED <<conn, native, Inputs, Outputs, inputs, outputs, destroyCount,
                   goVars, dataVars, waiting>>

Input_ReturnLoan(recv) ==
    /\ ~crashed
    /\ Quiescent
    /\ IF recv = 0 THEN Reject("ReturnLoan", recv, <<"input", "is", "null">>, 0)
       ELSE IF InputAt(recv).connector = "nil" THEN Panic("ReturnLoan", recv)
       ELSE Dispatch("ReturnLoan", recv, "RTI_Connector_return_loan", native, 0, 0, FALSE)
    /\ UNCHANGED <<connVars, goVars, dataVars, waiting>>

----------------------------------------------------------------------------
(* Samples *)

\* receivers a caller can name for a Samples or Infos method: the nil pointer
\* (0) or the view of an Input it was given
ViewReceivers == 0..Len(inputs)
\* and for an Instance method: the nil pointer or the Instance of an Output
InstanceReceivers == 0..Len(outputs)

Indices == -1..MaxSamples
FieldNames == {"", "st"}

NumericGetters ==
    {"GetUint8", "GetUint16", "GetUint32", "GetUint64", "GetInt8", "GetInt16",
     "GetInt32", "GetInt64", "GetFloat32", "GetFloat64", "GetInt", "GetUint",
     "GetByte", "GetRune"}

\* the Go type a numeric accessor converts to or from; "wide" stands for
\* int64, int and float64, which hold every number of this model
NumberType(accessor) ==
    CASE accessor \in {"GetUint8", "GetByte", "SetUint8", "SetByte"} -> "uint8"
      [] accessor \in {"GetInt8", "SetInt8"} -> "int8"
      [] accessor \in {"GetUint16", "SetUint16"} -> "uint16"
      [] accessor \in {"GetInt16", "SetInt16"} -> "int16"
      [] accessor \in {"GetUint32", "SetUint32"} -> "uint32"
      [] accessor \in {"GetInt32", "GetRune", "SetInt32", "SetRune"} -> "int32"
      [] accessor \in {"GetUint64", "GetUint", "SetUint64", "SetUint"} -> "uint64"
      [] accessor \in {"GetFloat32", "SetFloat32"} -> "float32"
      [] OTHER -> "wide"

NarrowTypes == {"uint8", "int8", "uint16", "int16"}
TypeMin(t) == IF t = "int8" THEN -128 ELSE IF t = "int16" THEN -32768 ELSE 0
TypeMax(t) ==
    IF t = "uint8" THEN 255 ELSE IF t = "int8" THEN 127
    ELSE IF t = "uint16" THEN 65535 ELSE 32767

\* the number d is a value of type t; the numbers of this model have at most
\* 32 bits, so the 32-bit and wider signed types hold them all and the
\* unsigned ones hold those that are not negative; float32 holds every
\* integer up to 2^24
InRange(t, d) ==
    IF t \in NarrowTypes THEN TypeMin(t) <= d /\ d <= TypeMax(t)
    ELSE IF t \in {"uint32", "uint64"} THEN d >= 0
    ELSE IF t = "float32" THEN -16777216 <= d /\ d <= 16777216
    ELSE TRUE

\* d reduced modulo the width of the narrow type t
Wrap(t, d) ==
    LET modulus == TypeMax(t) - TypeMin(t) + 1
    IN  (((d % modulus) - TypeMin(t)) % modulus) + TypeMin(t)

\* the Go conversion T(retVal) of the double a getter read: the number itself
\* when type T holds it; otherwise the conversion still succeeds and its
\* result depends on the implementation: the wrapped value or a limit of the
\* type for a narrow type, zero for an unsigned type given a negative number.
\* float32 keeps 24 bits: a larger number is rounded to the nearest multiple
\* of its unit in the last place, to the even one of two equally near
Convert(t, d) ==
    IF InRange(t, d) THEN {d}
    ELSE IF t \in NarrowTypes THEN {Wrap(t, d), TypeMin(t), TypeMax(t)}
    ELSE IF t = "float32"
    THEN LET mag == IF d < 0 THEN 0 - d ELSE d
             ulp == CHOOSE u \in {2, 4, 8, 16, 32, 64, 128} :
                        /\ mag \div u < 16777216
                        /\ \A w \in {2, 4, 8, 16, 32, 64, 128} :
                               (mag \div w < 16777216) => u <= w
             low == d - (d % ulp)
         IN  IF 2 * (d % ulp) < ulp THEN {low}
             ELSE IF 2 * (d % ulp) > ulp THEN {low + ulp}
             ELSE IF (low \div ulp) % 2 = 0 THEN {low} ELSE {low + ulp}
    ELSE {0}

\* the field is one of the topic type and holds values of this kind
HasField(fieldName, kind) == fieldName \in TopicFields /\ FieldKind(fieldName) = kind

\* what a native call that reads field fieldName of sample nativeIndex may
\* answer: success only for a sample the Input holds and a field it has
FieldOutcomes(self, recv, nativeIndex, fieldName, kind) ==
    IF HasField(fieldName, kind) THEN IndexedOutcomes(self, recv, nativeIndex)
    ELSE IndexedOutcomes(self, recv, nativeIndex) \ {DDSRetCodeOK}

\* the value the native call hands back on success: the field of the sample,
\* and the zero value the getter started from when the handle it passed
\* designates no sample
FieldValue(recv, nativeIndex, fieldName) ==
    IF nativeIndex >= 1 /\ nativeIndex <= Len(sampleData[recv])
    THEN sampleData[recv][nativeIndex].data[fieldName]
    ELSE DefaultFields[fieldName]

\* a getter makes the one native call fn for field fieldName of the sample at
\* the caller's 0-based index, which it passes as index + 1, and returns one
\* of okRets on success and errRet otherwise
DispatchField(op, recv, index, fn, self, fieldName, kind, okRets, errRet, freeString) ==
    \E out \in FieldOutcomes(self, recv, index + 1, fieldName, kind) :
      \E errMsg \in MessagesFor(out) :
        \E ret \in (IF out = DDSRetCodeOK THEN okRets ELSE {errRet}) :
            Finish(Deferred([Answer(op, recv, NativeCallAt(fn, self, index + 1), out, errMsg,
                                    ret, errRet, freeString)
                               EXCEPT !.args = <<index>>, !.field = fieldName], 1))

\* a getNumber that converts what it read to uint8 whatever the getter
Samples_getNumber_asByte(getter, recv, index, fieldName) ==
    /\ ~crashed
    /\ Quiescent
    /\ IF recv = 0
       THEN Finish([Done(getter, recv, <<"samples", "is", "null">>, 0, <<>>, Pre)
                      EXCEPT !.args = <<index>>, !.field = fieldName])
       ELSE DispatchField(getter, recv, index, "RTI_Connector_get_number_from_sample", native,
                          fieldName, "number",
                          IF HasField(fieldName, "number")
                          THEN Convert("uint8", FieldValue(recv, index + 1, fieldName))
                          ELSE {0},
                          0, FALSE)
    /\ UNCHANGED <<connVars, goVars, dataVars, waiting>>

\* a getNumber that refuses a number its getter's type does not hold
Samples_getNumber_rangechecked(getter, recv, index, fieldName) ==
    /\ ~crashed
    /\ Quiescent
    /\ IF recv = 0
       THEN Finish([Done(getter, recv, <<"samples", "is", "null">>, 0, <<>>, Pre)
                      EXCEPT !.args = <<index>>, !.field = fieldName])
       ELSE IF /\ HasField(fieldName, "number")
               /\ ~InRange(NumberType(getter), FieldValue(recv, index + 1, fieldName))
       THEN \E out \in FieldOutcomes(native, recv, index + 1, fieldName, "number") :
              \E errMsg \in MessagesFor(out) :
                Finish([Answer(getter, recv,
                               NativeCallAt("RTI_Connector_get_number_from_sample", native,
                                            index + 1),
                               out, errMsg, 0, 0, FALSE)
                          EXCEPT !.args = <<index>>, !.field = fieldName,
                                 !.err = IF @ = NoErr
                                         THEN <<"value", "out", "of", "range">> ELSE @])
       ELSE DispatchField(getter, recv, index, "RTI_Connector_get_number_from_sample", native,
                          fieldName, "number",
                          IF HasField(fieldName, "number")
                          THEN Convert(NumberType(getter), FieldValue(recv, index + 1, fieldName))
                          ELSE {0},
                          0, FALSE)
    /\ UNCHANGED <<connVars, goVars, dataVars, waiting>>

\* Samples.getNumber, reached through every numeric getter, which converts
\* the double it read to its own type
Samples_getNumber(getter, recv, index, fieldName) ==
    /\ ~crashed
    /\ Quiescent
    /\ IF recv = 0
       THEN Finish([Done(getter, recv, <<"samples", "is", "null">>, 0, <<>>, Pre)
                      EXCEPT !.args = <<index>>, !.field = fieldName])
       ELSE DispatchField(getter, recv, index, "RTI_Connector_get_number_from_sample", native,
                          fieldName, "number",
                          IF HasField(fieldName, "number")
                          THEN Convert(NumberType(getter), FieldValue(recv, index + 1, fieldName))
                          ELSE {0},
                          0, FALSE)
    /\ UNCHANGED <<connVars, goVars, dataVars, waiting>>

Samples_GetLength(recv) ==
    /\ ~crashed
    /\ Quiescent
    /\ IF recv = 0 THEN Reject("Samples.GetLength", recv, <<"samples", "is", "null">>, 0)
       ELSE Dispatch("Samples.GetLength", recv, "RTI_Connector_get_sample_count", native,
                     samples[recv], 0, FALSE)
    /\ UNCHANGED <<connVars, goVars, dataVars, waiting>>

\* GetBoolean: the native int is compared with zero
Samples_GetBoolean(recv, index, fieldName) ==
    /\ ~crashed
    /\ Quiescent
    /\ IF recv = 0
       THEN Finish([Done("GetBoolean", recv, <<"samples", "is", "null">>, FALSE, <<>>, Pre)
                      EXCEPT !.args = <<index>>, !.field = fieldName])
       ELSE DispatchField("GetBoolean", recv, index, "RTI_Connector_get_boolean_from_sample",
                          native, fieldName, "boolean",
                          IF HasField(fieldName, "boolean")
                          THEN {(IF FieldValue(recv, index + 1, fieldName) THEN 1 ELSE 0) # 0}
                          ELSE {FALSE},
                          FALSE, FALSE)
    /\ UNCHANGED <<connVars, goVars, dataVars, waiting>>

\* a GetString that returns the copy without releasing the native string
Samples_GetString_nofree(recv, index, fieldName) ==
    /\ ~crashed
    /\ Quiescent
    /\ IF recv = 0
       THEN Finish([Done("GetString", recv, <<"samples", "is", "null">>, "", <<>>, Pre)
                      EXCEPT !.args = <<index>>, !.field = fieldName])
       ELSE DispatchField("GetString", recv, index, "RTI_Connector_get_string_from_sample",
                          native, fieldName, "string",
                          IF HasField(fieldName, "string")
                          THEN {FieldValue(recv, index + 1, fieldName)}
                          ELSE {""},
                          "", FALSE)
    /\ UNCHANGED <<connVars, goVars, dataVars, waiting>>

Samples_GetString(recv, index, fieldName) ==
    /\ ~crashed
    /\ Quiescent
    /\ IF recv = 0
       THEN Finish([Done("GetString", recv, <<"samples", "is", "null">>, "", <<>>, Pre)
                      EXCEPT !.args = <<index>>, !.field = fieldName])
       ELSE DispatchField("GetString", recv, index, "RTI_Connector_get_string_from_sample",
                          native, fieldName, "string",
                          IF HasField(fieldName, "string")
                          THEN {FieldValue(recv, index + 1, fieldName)}
                          ELSE {""},
                          "", TRUE)
    /\ UNCHANGED <<connVars, goVars, dataVars, waiting>>

\* the JSON object the native layer builds for sample nativeIndex: one
\* member per field of the topic type
SampleJSON(recv, nativeIndex) ==
    IF nativeIndex >= 1 /\ nativeIndex <= Len(sampleData[recv])
    THEN sampleData[recv][nativeIndex].data
    ELSE DefaultFields

\* GetJSON, and Get, which unmarshals what GetJSON returned into the struct
\* out of the caller and leaves out alone when GetJSON failed
FetchJSON(op, recv, index, out, decode) ==
    \E code \in IndexedOutcomes(native, recv, index + 1) : \E errMsg \in MessagesFor(code) :
        Finish([Answer(op, recv,
                       NativeCallAt("RTI_Connector_get_json_sample", native, index + 1),
                       code, errMsg,
                       IF decode THEN Unmarshal(SampleJSON(recv, index + 1), out)
                       ELSE SampleJSON(recv, index + 1),
                       IF decode THEN out ELSE "",
                       TRUE)
                  EXCEPT !.args = <<index>>, !.value = out])

Samples_GetJSON(recv, index) ==
    /\ ~crashed
    /\ Quiescent
    /\ IF recv = 0 THEN RejectAt("GetJSON", recv, index, <<"samples", "is", "null">>, "")
       ELSE FetchJSON("GetJSON", recv, index, "", FALSE)
    /\ UNCHANGED <<connVars, goVars, dataVars, waiting>>

\* a Get that unmarshals into out whatever GetJSON returned
Samples_Get_decoding(recv, index, out) ==
    /\ ~crashed
    /\ Quiescent
    /\ IF recv = 0
       THEN Finish([Done("Get", recv, <<"samples", "is", "null">>, out, <<>>, Pre)
                      EXCEPT !.args = <<index>>, !.value = out])
       ELSE \E code \in IndexedOutcomes(native, recv, index + 1) :
              \E errMsg \in MessagesFor(code) :
                Finish([Answer("Get", recv,
                               NativeCallAt("RTI_Connector_get_json_sample", native, index + 1),
                               code, errMsg,
                               Unmarshal(SampleJSON(recv, index + 1), out),
                               Unmarshal(SampleJSON(recv, index + 1), out),
                               TRUE)
                          EXCEPT !.args = <<index>>, !.value = out])
    /\ UNCHANGED <<connVars, goVars, dataVars, waiting>>

\* Samples.Get: GetJSON, then json.Unmarshal of what it returned
Samples_Get(recv, index, out) ==
    /\ ~crashed
    /\ Quiescent
    /\ IF recv = 0
       THEN Finish([Done("Get", recv, <<"samples", "is", "null">>, out, <<>>, Pre)
                      EXCEPT !.args = <<index>>, !.value = out])
       ELSE FetchJSON("Get", recv, index, out, TRUE)
    /\ UNCHANGED <<connVars, goVars, dataVars, waiting>>

----------------------------------------------------------------------------
(* Infos *)

\* IsValid without the test of the index
Infos_IsValid_anyindex(recv, index) ==
    /\ ~crashed
    /\ Quiescent
    /\ IF recv = 0
       THEN RejectAt("IsValid", recv, index, <<"infos,", "input,", "or", "connector", "is", "null">>, 0)
       ELSE DispatchAt("IsValid", recv, index, "RTI_Connector_get_boolean_from_infos", native,
                       0, 0, FALSE)
    /\ UNCHANGED <<connVars, goVars, dataVars, waiting>>

Infos_IsValid(recv, index) ==
    /\ ~crashed
    /\ Quiescent
    /\ IF recv = 0
       THEN RejectAt("IsValid", recv, index, <<"infos,", "input,", "or", "connector", "is", "null">>, 0)
       ELSE IF index < 0
       THEN RejectAt("IsValid", recv, index, <<"index", "cannot", "be", "negative">>, 0)
       ELSE DispatchAt("IsValid", recv, index, "RTI_Connector_get_boolean_from_infos", native,
                     0, 0, FALSE)
    /\ UNCHANGED <<connVars, goVars, dataVars, waiting>>

\* an Infos.GetLength that answers with the size of the reader's queue
Infos_GetLength_queued(recv) ==
    /\ ~crashed
    /\ Quiescent
    /\ IF recv = 0 THEN Panic("Infos.GetLength", recv)
       ELSE Dispatch("Infos.GetLength", recv, "RTI_Connector_get_sample_count", native,
                     queue[recv], 0, FALSE)
    /\ UNCHANGED <<connVars, goVars, dataVars, waiting>>

Infos_GetLength(recv) ==
    /\ ~crashed
    /\ Quiescent
    /\ IF recv = 0 THEN Panic("Infos.GetLength", recv)
       ELSE Dispatch("Infos.GetLength", recv, "RTI_Connector_get_sample_count", native,
                     samples[recv], 0, FALSE)
    /\ UNCHANGED <<connVars, goVars, dataVars, waiting>>

MemberGetters ==
    {"GetSourceTimestamp", "GetReceptionTimestamp", "GetIdentity", "GetIdentityJSON",
     "GetRelatedIdentity", "GetRelatedIdentityJSON", "GetViewState",
     "GetInstanceState", "GetSampleState"}

\* the member of the sample info a getter asks the native layer for
MemberName(getter) ==
    IF getter \in {"GetIdentity", "GetIdentityJSON"} THEN "sample_identity"
    ELSE IF getter \in {"GetRelatedIdentity", "GetRelatedIdentityJSON"}
    THEN "related_sample_identity"
    ELSE "other"

\* the JSON the native layer hands back for a member of the info of sample
\* nativeIndex; the text of a timestamp or of a state is not followed
InfoMember(recv, nativeIndex, memberName) ==
    IF memberName = "other" THEN 1
    ELSE IF nativeIndex >= 1 /\ nativeIndex <= Len(sampleData[recv])
    THEN IF memberName = "sample_identity" THEN sampleData[recv][nativeIndex].identity
         ELSE sampleData[recv][nativeIndex].related
    ELSE UnknownIdentity

\* what a getter returns for the JSON of its member: GetIdentity and
\* GetRelatedIdentity unmarshal it into an Identity, the others return it
MemberResult(getter, json) ==
    IF getter \in {"GetIdentity", "GetRelatedIdentity"} THEN ToIdentity(json) ELSE json

\* an Infos.getJSONMember that asks for the sample identity whatever the getter
Infos_getJSONMember_sameMember(getter, recv, index) ==
    /\ ~crashed
    /\ Quiescent
    /\ IF recv = 0
       THEN Finish(Deferred([Done(getter, recv, ErrPanic, 0, <<>>, Pre)
                               EXCEPT !.args = <<index>>], 1))
       ELSE DispatchAt(getter, recv, index, "RTI_Connector_get_json_from_infos", native,
                     MemberResult(getter,
                                  InfoMember(recv, index + 1,
                                             IF MemberName(getter) = "other" THEN "other"
                                             ELSE "sample_identity")),
                     0, TRUE)
    /\ UNCHANGED <<connVars, goVars, dataVars, waiting>>

\* Infos.getJSONMember, reached through every timestamp, identity and state
\* getter
Infos_getJSONMember(getter, recv, index) ==
    /\ ~crashed
    /\ Quiescent
    /\ IF recv = 0
       THEN Finish(Deferred([Done(getter, recv, ErrPanic, 0, <<>>, Pre)
                               EXCEPT !.args = <<index>>], 1))
       ELSE DispatchAt(getter, recv, index, "RTI_Connector_get_json_from_infos", native,
                     MemberResult(getter, InfoMember(recv, index + 1, MemberName(getter))),
                     0, TRUE)
    /\ UNCHANGED <<connVars, goVars, dataVars, waiting>>

----------------------------------------------------------------------------
(* Instance *)

NumericSetters ==
    {"SetUint8", "SetUint16", "SetUint32", "SetUint64", "SetInt8", "SetInt16",
     "SetInt32", "SetInt64", "SetUint", "SetInt", "SetFloat32", "SetFloat64",
     "SetByte", "SetRune"}

\* C.double(value): every integer this model passes has at most 32 bits, and
\* a double holds each of them exactly
ToDouble(value) == value

\* what the native layer may answer when asked to stage a value of kind
\* `kind` in field fieldName: success only for a field of the topic type
\* that holds this kind of value
StagingOutcomes(self, fieldName, kind) ==
    IF fieldName \in TopicFields /\ FieldKind(fieldName) = kind
    THEN NativeOutcomes(self)
    ELSE NativeOutcomes(self) \ {DDSRetCodeOK}

\* a setter makes the one native call fn with the field name and the value
\* it was given; on success the native layer stores `stored` in that field
\* of the writer's staged record and leaves the other fields alone
Stage(op, recv, fn, fieldName, kind, value, stored) ==
    \E out \in StagingOutcomes(native, fieldName, kind) : \E errMsg \in MessagesFor(out) :
        /\ Finish(Deferred([Answer(op, recv, NativeCall(fn, native), out, errMsg, 0, 0, FALSE)
                              EXCEPT !.field = fieldName, !.value = value],
                           IF kind = "string" THEN 2 ELSE 1))
        /\ staged' = IF out = DDSRetCodeOK
                      THEN [staged EXCEPT ![outputs[recv].name][fieldName] = stored]
                      ELSE staged
        /\ lastSet' = IF out = DDSRetCodeOK
                       THEN [lastSet EXCEPT ![outputs[recv].name][fieldName] = value]
                       ELSE lastSet

\* a numeric setter that reports success without handing the value to the
\* native layer
Instance_SetNumber_nocall(setter, recv, fieldName, value) ==
    /\ ~crashed
    /\ Quiescent
    /\ IF recv = 0
       THEN /\ PanicAfter(setter, recv, 1)
            /\ UNCHANGED stageVars
       ELSE /\ Finish([Done(setter, recv, NoErr, 0, <<>>, Pre)
                         EXCEPT !.field = fieldName, !.value = value])
            /\ lastSet' = [lastSet EXCEPT ![outputs[recv].name][fieldName] = value]
            /\ UNCHANGED staged
    /\ UNCHANGED <<connVars, goVars, flowVars, waiting>>

\* the numeric setters: each passes its value to the native layer as a double
Instance_SetNumber(setter, recv, fieldName, value) ==
    /\ ~crashed
    /\ Quiescent
    /\ IF recv = 0
       THEN /\ PanicAfter(setter, recv, 1)
            /\ UNCHANGED stageVars
       ELSE Stage(setter, recv, "RTI_Connector_set_number_into_samples", fieldName,
                  "number", value, ToDouble(value))
    /\ UNCHANGED <<connVars, goVars, flowVars, waiting>>

\* a SetString that drops the status the native call answered
Instance_SetString_unchecked(recv, fieldName, value) ==
    /\ ~crashed
    /\ Quiescent
    /\ IF recv = 0
       THEN /\ Reject("SetString", recv,
                      <<"instance,", "output,", "or", "connector", "is", "null">>, 0)
            /\ UNCHANGED stageVars
       ELSE IF fieldName = ""
       THEN /\ Reject("SetString", recv, <<"fieldName", "cannot", "be", "empty">>, 0)
            /\ UNCHANGED stageVars
       ELSE \E out \in StagingOutcomes(native, fieldName, "string") :
              \E errMsg \in MessagesFor(out) :
                /\ Finish([Answer("SetString", recv,
                                  NativeCall("RTI_Connector_set_string_into_samples", native),
                                  out, errMsg, 0, 0, FALSE)
                             EXCEPT !.field = fieldName, !.value = value, !.err = NoErr])
                /\ staged' = IF out = DDSRetCodeOK
                              THEN [staged EXCEPT ![outputs[recv].name][fieldName] = value]
                              ELSE staged
                /\ lastSet' = IF out = DDSRetCodeOK
                               THEN [lastSet EXCEPT ![outputs[recv].name][fieldName] = value]
                               ELSE lastSet
    /\ UNCHANGED <<connVars, goVars, flowVars, waiting>>

Instance_SetString(recv, fieldName, value) ==
    /\ ~crashed
    /\ Quiescent
    /\ IF recv = 0
       THEN /\ Reject("SetString", recv,
                      <<"instance,", "output,", "or", "connector", "is", "null">>, 0)
            /\ UNCHANGED stageVars
       ELSE IF fieldName = ""
       THEN /\ Reject("SetString", recv, <<"fieldName", "cannot", "be", "empty">>, 0)
            /\ UNCHANGED stageVars
       ELSE Stage("SetString", recv, "RTI_Connector_set_string_into_samples", fieldName,
                  "string", value, value)
    /\ UNCHANGED <<connVars, goVars, flowVars, waiting>>

\* SetBoolean: the value travels as the int 1 or 0
Instance_SetBoolean(recv, fieldName, value) ==
    /\ ~crashed
    /\ Quiescent
    /\ IF recv = 0
       THEN /\ PanicAfter("SetBoolean", recv, 1)
            /\ UNCHANGED stageVars
       ELSE Stage("SetBoolean", recv, "RTI_Connector_set_boolean_into_samples", fieldName,
                  "boolean", value, (IF value THEN 1 ELSE 0) # 0)
    /\ UNCHANGED <<connVars, goVars, flowVars, waiting>>

\* what RTI_Connector_set_json_instance may answer: success only when every
\* member of the object is a field of the topic type
JSONOutcomes(self, blob) ==
    IF DOMAIN blob \subseteq TopicFields
    THEN NativeOutcomes(self)
    ELSE NativeOutcomes(self) \ {DDSRetCodeOK}

\* the record with the members of blob set and the other fields kept
Overlay(record, blob) ==
    [f \in TopicFields |-> IF f \in DOMAIN blob THEN blob[f] ELSE record[f]]

\* the native call of SetJSON: on success the members of the object are
\* staged and the other fields keep what they held
StageJSON(op, recv, blob, value) ==
    \E out \in JSONOutcomes(native, blob) : \E errMsg \in MessagesFor(out) :
        /\ Finish(Deferred([Answer(op, recv,
                                   NativeCall("RTI_Connector_set_json_instance", native),
                                   out, errMsg, 0, 0, FALSE) EXCEPT !.value = value], 1))
        /\ staged' = IF out = DDSRetCodeOK
                      THEN [staged EXCEPT ![outputs[recv].name] = Overlay(@, blob)]
                      ELSE staged
        /\ lastSet' = IF out = DDSRetCodeOK
                       THEN [lastSet EXCEPT ![outputs[recv].name] = Overlay(@, blob)]
                       ELSE lastSet

Instance_SetJSON(recv, blob) ==
    /\ ~crashed
    /\ Quiescent
    /\ IF recv = 0
       THEN /\ PanicAfter("SetJSON", recv, 1)
            /\ UNCHANGED stageVars
       ELSE StageJSON("SetJSON", recv, blob, blob)
    /\ UNCHANGED <<connVars, goVars, flowVars, waiting>>

\* Instance.Set: json.Marshal, which does not fail for a struct of scalar
\* fields, then SetJSON
Instance_Set(recv, v) ==
    /\ ~crashed
    /\ Quiescent
    /\ IF recv = 0
       THEN /\ PanicAfter("Set", recv, 1)
            /\ UNCHANGED stageVars
       ELSE StageJSON("Set", recv, Marshal(v), v)
    /\ UNCHANGED <<connVars, goVars, flowVars, waiting>>

----------------------------------------------------------------------------
(* The sequential program: one goroutine calls the public operations.    *)
(* No sample reaches a reader here, and the caller asks for the first     *)
(* sample only; SpecAccess varies the samples and the index.              *)

FirstSample == {0}

\* the struct a caller passes here: one string field, empty
EmptyTest == [St |-> ""]

ConnectorOps ==
    \/ \E found \in BOOLEAN : NewConnector(found)
    \/ \E recv \in ConnReceivers : Delete(recv)
    \/ \E recv \in ConnReceivers, n \in LookupNames : GetOutput(recv, n)
    \/ \E recv \in ConnReceivers, n \in LookupNames : GetInput(recv, n)
    \/ \E recv \in ConnReceivers : Wait(recv)

OutputOps ==
    \/ \E recv \in OutputReceivers : Output_Write(recv)
    \/ \E recv \in OutputReceivers : Output_WriteWithParams(recv, NoParams)
    \/ \E recv \in OutputReceivers : Output_ClearMembers(recv)
    \/ \E recv \in OutputReceivers : Output_WaitForSubscriptions(recv)
    \/ \E recv \in OutputReceivers : Output_GetMatchedSubscriptions(recv)

InputOps ==
    \/ \E recv \in InputReceivers : Input_Read(recv)
    \/ \E recv \in InputReceivers : Input_Take(recv)
    \/ \E recv \in InputReceivers : Input_WaitForPublications(recv)
    \/ \E recv \in InputReceivers : Input_GetMatchedPublications(recv)
    \/ \E recv \in InputReceivers : Input_Read_checked(recv)
    \/ \E recv \in InputReceivers : Input_Take_checked(recv)
    \/ \E recv \in InputReceivers : Input_WaitForPublications_checked(recv)
    \/ \E recv \in InputReceivers : Input_GetMatchedPublications_checked(recv)
    \/ \E recv \in InputReceivers : Input_ReturnLoan(recv)

\* the Samples and Infos calls of a caller that passes the indices in idx
SamplesOps(idx) ==
    \/ \E g \in NumericGetters, recv \in ViewReceivers, i \in idx :
          Samples_getNumber(g, recv, i, "x")
    \/ \E recv \in ViewReceivers : Samples_GetLength(recv)
    \/ \E recv \in ViewReceivers, i \in idx : Samples_GetBoolean(recv, i, "b")
    \/ \E recv \in ViewReceivers, i \in idx : Samples_GetString(recv, i, "st")
    \/ \E recv \in ViewReceivers, i \in idx : Samples_GetJSON(recv, i)
    \/ \E recv \in ViewReceivers, i \in idx : Samples_Get(recv, i, EmptyTest)

InfosOps(idx) ==
    \/ \E recv \in ViewReceivers, i \in idx : Infos_IsValid(recv, i)
    \/ \E recv \in ViewReceivers : Infos_GetLength(recv)
    \/ \E g \in MemberGetters, recv \in ViewReceivers, i \in idx : Infos_getJSONMember(g, recv, i)

InstanceOps ==
    \/ \E g \in NumericSetters, recv \in InstanceReceivers : Instance_SetNumber(g, recv, "x", 0)
    \/ \E recv \in InstanceReceivers, f \in FieldNames : Instance_SetString(recv, f, "")
    \/ \E recv \in InstanceReceivers : Instance_SetBoolean(recv, "b", FALSE)
    \/ \E recv \in InstanceReceivers : Instance_SetJSON(recv, Marshal(EmptyTest))
    \/ \E recv \in InstanceReceivers : Instance_Set(recv, EmptyTest)

Next ==
    \/ ConnectorOps
    \/ OutputOps
    \/ InputOps
    \/ SamplesOps(FirstSample)
    \/ InfosOps(FirstSample)
    \/ InstanceOps

Spec == Init /\ [][Next]_vars

----------------------------------------------------------------------------
(* Access to received data: a Connector with one Input, samples that reach *)
(* its reader, and a caller that reads them at any index.                  *)

\* the Input handle newInput builds for the first lookup
FirstInput == [native |-> "reader", connector |-> "ref",
               name |-> "MySubscriber::MyReader", nameCStr |-> 1,
               Samples |-> "ref", Infos |-> "ref"]

\* the state after NewConnector and one successful GetInput
InitAccess ==
    /\ conn = "ref"
    /\ native = "live"
    /\ Inputs = <<FirstInput>>
    /\ Outputs = <<>>
    /\ inputs = <<FirstInput>>
    /\ outputs = <<>>
    /\ heap = <<0>>
    /\ destroyCount = 0
    /\ crashed = FALSE
    /\ pc = [g \in Goroutines |-> "idle"]
    /\ loc = [g \in Goroutines |-> [slice |-> <<>>, i |-> 0, locked |-> FALSE]]
    /\ mutex = 0
    /\ queue = <<0>>
    /\ samples = <<0>>
    /\ staged = [n \in WriterNames |-> DefaultFields]
    /\ lastSet = [n \in WriterNames |-> DefaultFields]
    /\ readerData = << <<>> >>
    /\ sampleData = << <<>> >>
    /\ matched = FALSE
    /\ waiting = NotWaiting
    /\ last = Done("GetInput", 1, NoErr, 1,
                   <<NativeCall("RTI_Connector_get_datareader", "live")>>,
                   [native |-> "live", Inputs |-> <<>>, Outputs |-> <<>>,
                    inputs |-> <<>>, outputs |-> <<>>, heap |-> <<>>,
                    destroyCount |-> 0, samples |-> <<>>,
                    staged |-> [n \in WriterNames |-> DefaultFields],
                    readerData |-> <<>>, sampleData |-> <<>>])

\* the k-th sample a reader holds: the writer gave field x the value k, and
\* the sample got sequence number k
Numbered(k) ==
    [DefaultSample EXCEPT !.data = [@ EXCEPT !.x = k], !.set = [@ EXCEPT !.x = k],
                          !.identity = JSONIdentity(@.writer_guid, k)]

\* a sample written by a matching writer reaches the reader of Input i
Deliver(i) ==
    /\ ~crashed
    /\ Quiescent
    /\ native = "live"
    /\ queue[i] < MaxSamples
    /\ queue' = [queue EXCEPT ![i] = @ + 1]
    /\ readerData' = [readerData EXCEPT ![i] = Append(@, Numbered(Len(@) + 1))]
    /\ UNCHANGED <<connVars, goVars, crashed, last, samples, waiting, staged, lastSet, sampleData, matched>>

NextAccess ==
    \/ \E recv \in ConnReceivers : Delete(recv)
    \/ \E i \in 1..Len(inputs) : Deliver(i)
    \/ \E recv \in InputReceivers : Input_Read(recv)
    \/ \E recv \in InputReceivers : Input_Take(recv)
    \/ \E recv \in InputReceivers : Input_Read_checked(recv)
    \/ \E recv \in InputReceivers : Input_Take_checked(recv)
    \/ SamplesOps(Indices)
    \/ InfosOps(Indices)

SpecAccess == InitAccess /\ [][NextAccess]_vars

----------------------------------------------------------------------------
(* Data flow: a Connector with one Output and one Input on the same topic, *)
(* matched; the caller sets fields, writes, reads or takes, and gets the   *)
(* fields of the first sample back.                                        *)

MaxInt32 == 2147483647

\* the handles newOutput and newInput build for the two lookups
DataOutput == [native |-> "writer", connector |-> "ref",
               name |-> "MyPublisher::MyWriter", nameCStr |-> 1, Instance |-> "ref"]
DataInput == [native |-> "reader", connector |-> "ref",
              name |-> "MySubscriber::MyReader", nameCStr |-> 2,
              Samples |-> "ref", Infos |-> "ref"]

\* the state after NewConnector, one successful GetOutput, one successful
\* GetInput and discovery
InitData ==
    /\ conn = "ref"
    /\ native = "live"
    /\ Inputs = <<DataInput>>
    /\ Outputs = <<DataOutput>>
    /\ inputs = <<DataInput>>
    /\ outputs = <<DataOutput>>
    /\ heap = <<0, 0>>
    /\ destroyCount = 0
    /\ crashed = FALSE
    /\ pc = [g \in Goroutines |-> "idle"]
    /\ loc = [g \in Goroutines |-> [slice |-> <<>>, i |-> 0, locked |-> FALSE]]
    /\ mutex = 0
    /\ queue = <<0>>
    /\ samples = <<0>>
    /\ staged = [n \in WriterNames |-> DefaultFields]
    /\ lastSet = [n \in WriterNames |-> DefaultFields]
    /\ readerData = << <<>> >>
    /\ sampleData = << <<>> >>
    /\ matched = TRUE
    /\ waiting = NotWaiting
    /\ last = Done("none", 0, NoErr, 0, <<>>, Pre)

\* what the caller passes: numbers of one and of four bytes, the string
\* "test", the boolean true, structs with some or all fields of the topic
\* type, one with a field the type lacks and the zero value of a struct,
\* `var out T`, which a reader passes to Get; the field of the type for the
\* kind of value, an unknown field name and the empty one
NumberValues == {200, MaxInt32}
StructValues ==
    {[St |-> "test"], [X |-> 200, St |-> "test", B |-> TRUE], [Extra |-> 1],
     [X |-> 0, St |-> "", B |-> FALSE]}
CallerFields(kind) ==
    {f \in TopicFields : FieldKind(f) = kind} \cup {"nonexistent_field", ""}

\* the setters of the types of at most 32 bits, and the getters the caller
\* uses: all but GetFloat32, whose result for the int32 maximum, 2^31, is
\* beyond the integers the model can hold
DataSetters ==
    {"SetUint8", "SetByte", "SetInt16", "SetUint16", "SetInt32", "SetRune", "SetUint32"}
DataGetters == NumericGetters \ {"GetFloat32"}

\* the values of the type of a setter
SetterValues(setter) == {v \in NumberValues : InRange(NumberType(setter), v)}

\* the caller is between two calls: it holds no result it has not looked at
Ready == last.op = "none"

\* the caller has looked at the result of its last call and goes on
Resume ==
    /\ ~Ready
    /\ last' = Done("none", 0, NoErr, 0, <<>>, Pre)
    /\ UNCHANGED <<connVars, goVars, dataVars, waiting, crashed>>

NextData ==
    \/ \E g \in DataSetters, f \in CallerFields("number") : \E v \in SetterValues(g) :
          Ready /\ Instance_SetNumber(g, 1, f, v)
    \/ \E f \in CallerFields("string") : Ready /\ Instance_SetString(1, f, "test")
    \/ \E f \in CallerFields("boolean") : Ready /\ Instance_SetBoolean(1, f, TRUE)
    \/ \E v \in StructValues : Ready /\ Instance_SetJSON(1, Marshal(v))
    \/ \E v \in StructValues : Ready /\ Instance_Set(1, v)
    \/ Ready /\ Output_Write(1)
    \/ Ready /\ Output_WriteWithParams(1, NoParams)
    \/ Ready /\ Output_ClearMembers(1)
    \/ Ready /\ Input_Read(1)
    \/ Ready /\ Input_Take(1)
    \/ \E g \in DataGetters, f \in CallerFields("number") :
          Ready /\ Samples_getNumber(g, 1, 0, f)
    \/ \E f \in CallerFields("string") : Ready /\ Samples_GetString(1, 0, f)
    \/ \E f \in CallerFields("boolean") : Ready /\ Samples_GetBoolean(1, 0, f)
    \/ Ready /\ Samples_GetJSON(1, 0)
    \/ \E v \in StructValues : Ready /\ Samples_Get(1, 0, v)
    \/ Ready /\ Samples_GetLength(1)
    \/ Ready /\ Infos_GetLength(1)
    \/ Resume

SpecData == InitData /\ [][NextData]_vars

----------------------------------------------------------------------------
(* Concurrent writers: each goroutine calls Instance.SetInt32 with its own *)
(* index and then Output.Write on the one Output, with or without holding  *)
(* the mutex of the caller; a native call is entered and returns in two    *)
(* steps, so that calls of different goroutines can overlap.               *)

\* the state after NewConnector and one successful GetOutput
InitWrites ==
    /\ conn = "ref"
    /\ native = "live"
    /\ Inputs = <<>>
    /\ Outputs = <<DataOutput>>
    /\ inputs = <<>>
    /\ outputs = <<DataOutput>>
    /\ heap = <<0>>
    /\ destroyCount = 0
    /\ crashed = FALSE
    /\ pc = [g \in Goroutines |-> "idle"]
    /\ loc = [g \in Goroutines |->
                [slice |-> <<>>, i |-> 0, locked |-> FALSE, raced |-> FALSE,
                 setCode |-> DDSRetCodeOK, code |-> DDSRetCodeOK, err |-> NoErr,
                 wrote |-> <<>>]]
    /\ mutex = 0
    /\ queue = <<>>
    /\ samples = <<>>
    /\ staged = [n \in WriterNames |-> DefaultFields]
    /\ lastSet = [n \in WriterNames |-> DefaultFields]
    /\ readerData = <<>>
    /\ sampleData = <<>>
    /\ matched = FALSE
    /\ waiting = NotWaiting
    /\ last = Done("GetOutput", 1, NoErr, 1,
                   <<NativeCall("RTI_Connector_get_datawriter", "live")>>, Pre)

\* go func(index int) { output.Instance.SetInt32("x", int32(index));
\*                      errors[index] = output.Write() }(g)
GoWrites(g) ==
    /\ ~crashed
    /\ pc[g] = "idle"
    /\ pc' = [pc EXCEPT ![g] = "set"]
    /\ loc' = [loc EXCEPT ![g].locked = FALSE]
    /\ UNCHANGED <<connVars, crashed, last, mutex, dataVars, waiting>>

\* a goroutine that marks itself as holding the mutex without acquiring it
GoLockedWrites_nolock(g) ==
    /\ ~crashed
    /\ pc[g] = "idle"
    /\ pc' = [pc EXCEPT ![g] = "set"]
    /\ loc' = [loc EXCEPT ![g].locked = TRUE]
    /\ UNCHANGED <<connVars, crashed, last, mutex, dataVars, waiting>>

\* go func(index int) { mu.Lock(); defer mu.Unlock(); ... }(g)
GoLockedWrites(g) ==
    /\ ~crashed
    /\ pc[g] = "idle"
    /\ mutex = 0
    /\ mutex' = g
    /\ pc' = [pc EXCEPT ![g] = "set"]
    /\ loc' = [loc EXCEPT ![g].locked = TRUE]
    /\ UNCHANGED <<connVars, crashed, last, dataVars, waiting>>

\* goroutine g enters a native call: when another goroutine is inside one,
\* the two calls race on the native state of the Connector
EnterNative(g, inside) ==
    /\ pc' = [pc EXCEPT ![g] = inside]
    /\ loc' = [h \in Goroutines |->
                 IF \E k \in Goroutines \ {g} : pc[k] \in {"setting", "writing"}
                 THEN IF h = g \/ pc[h] \in {"setting", "writing"}
                      THEN [loc[h] EXCEPT !.raced = TRUE] ELSE loc[h]
                 ELSE loc[h]]

\* what a native call that raced with another may answer: the race is
\* undefined behaviour of the native library, so any status or a fault
RacedOutcomes(g, outcomes) == IF loc[g].raced THEN RetCodes \cup {Fault} ELSE outcomes

\* Instance.SetInt32 up to its call of RTI_Connector_set_number_into_samples
GoSetCall(g) ==
    /\ ~crashed
    /\ pc[g] = "set"
    /\ EnterNative(g, "setting")
    /\ UNCHANGED <<connVars, crashed, last, mutex, dataVars, waiting>>

\* the native call returns; the goroutine drops the error of SetInt32
GoSetReturn(g) ==
    /\ ~crashed
    /\ pc[g] = "setting"
    /\ \E out \in RacedOutcomes(g, StagingOutcomes(native, "x", "number")) :
          /\ staged' = IF out = DDSRetCodeOK
                        THEN [staged EXCEPT ![outputs[1].name]["x"] = ToDouble(g)]
                        ELSE staged
          /\ lastSet' = IF out = DDSRetCodeOK
                         THEN [lastSet EXCEPT ![outputs[1].name]["x"] = g]
                         ELSE lastSet
          /\ crashed' = (out = Fault)
          /\ loc' = [loc EXCEPT ![g].setCode = out, ![g].raced = FALSE]
    /\ pc' = [pc EXCEPT ![g] = "write"]
    /\ UNCHANGED <<connVars, last, mutex, flowVars, waiting>>

\* Output.Write: output.isValid(), then the call of RTI_Connector_write
GoWriteCall(g) ==
    /\ ~crashed
    /\ pc[g] = "write"
    /\ IF Output_isValid(1) # NoErr
       THEN /\ pc' = [pc EXCEPT ![g] = "ret"]
            /\ loc' = [loc EXCEPT ![g].err = Output_isValid(1)]
       ELSE EnterNative(g, "writing")
    /\ UNCHANGED <<connVars, crashed, last, mutex, dataVars, waiting>>

\* the native call returns and Write returns checkRetcode of its status; on
\* success the writer published the record that was staged
GoWriteReturn(g) ==
    /\ ~crashed
    /\ pc[g] = "writing"
    /\ \E out \in RacedOutcomes(g, WriteOutcomes(native, 1)) : \E errMsg \in MessagesFor(out) :
          /\ crashed' = (out = Fault)
          /\ loc' = [loc EXCEPT ![g].code = out, ![g].raced = FALSE,
                                 ![g].err = IF out = Fault THEN ErrPanic
                                            ELSE checkRetcode(out, errMsg),
                                 ![g].wrote = IF out = DDSRetCodeOK
                                              THEN <<[data |-> staged[outputs[1].name],
                                                      set |-> lastSet[outputs[1].name]]>>
                                              ELSE <<>>]
    /\ pc' = [pc EXCEPT ![g] = "ret"]
    /\ UNCHANGED <<connVars, last, mutex, dataVars, waiting>>

\* the goroutine ends, and with it the deferred mu.Unlock() of one that
\* holds the mutex
GoWritesReturn(g) ==
    /\ ~crashed
    /\ pc[g] = "ret"
    /\ pc' = [pc EXCEPT ![g] = "done"]
    /\ mutex' = IF loc[g].locked THEN 0 ELSE mutex
    /\ UNCHANGED <<connVars, crashed, last, loc, dataVars, waiting>>

NextWrites ==
    \/ \E g \in Goroutines : GoWrites(g)
    \/ \E g \in Goroutines : GoLockedWrites(g)
    \/ \E g \in Goroutines : GoSetCall(g)
    \/ \E g \in Goroutines : GoSetReturn(g)
    \/ \E g \in Goroutines : GoWriteCall(g)
    \/ \E g \in Goroutines : GoWriteReturn(g)
    \/ \E g \in Goroutines : GoWritesReturn(g)

SpecWrites == InitWrites /\ [][NextWrites]_vars

----------------------------------------------------------------------------
(* Request and reply: a requester writes one request under an identity of  *)
(* its own, the replier takes it, reads its identity and writes a reply    *)
(* related to it, and the requester takes the reply and reads what it      *)
(* relates to. Each call is made when the call before it succeeded. The    *)
(* Connectors of the two participants live in one process and no step acts *)
(* on a Connector itself: they are kept as one here, with the request      *)
(* writer and the reply writer as its Outputs and the two readers as its   *)
(* Inputs.                                                                 *)

\* the state after the two NewConnector calls, the four lookups and discovery
InitReply ==
    /\ conn = "ref"
    /\ native = "live"
    /\ Inputs = <<[DataInput EXCEPT !.name = "RequestSubscriber::RequestReader"],
                  [DataInput EXCEPT !.name = "ReplySubscriber::ReplyReader", !.nameCStr = 4]>>
    /\ Outputs = <<[DataOutput EXCEPT !.name = "RequestPublisher::RequestWriter"],
                   [DataOutput EXCEPT !.name = "ReplyPublisher::ReplyWriter", !.nameCStr = 3]>>
    /\ inputs = Inputs
    /\ outputs = Outputs
    /\ heap = <<0, 0, 0, 0>>
    /\ destroyCount = 0
    /\ crashed = FALSE
    /\ pc = [g \in Goroutines |-> "idle"]
    /\ loc = [g \in Goroutines |-> [slice |-> <<>>, i |-> 0, locked |-> FALSE]]
    /\ mutex = 0
    /\ queue = <<0, 0>>
    /\ samples = <<0, 0>>
    /\ staged = [n \in {"RequestPublisher::RequestWriter", "ReplyPublisher::ReplyWriter"}
                   |-> DefaultFields]
    /\ lastSet = staged
    /\ readerData = << <<>>, <<>> >>
    /\ sampleData = << <<>>, <<>> >>
    /\ matched = TRUE
    /\ waiting = NotWaiting
    /\ last = Done("none", 0, NoErr, 0, <<>>, Pre)

\* the identities a requester gives its request
RequestIdentities ==
    {JSONIdentity([k \in 1..GUIDLen |-> k], 42),
     JSONIdentity([k \in 1..GUIDLen |-> k], 43),
     JSONIdentity([k \in 1..GUIDLen |-> GUIDLen + 1 - k], 42),
     JSONIdentity([k \in 1..GUIDLen |-> GUIDLen + 1 - k], 43)}

\* the call before was op on handle recv and returned nil
Succeeded(op, recv) == last.op = op /\ last.recv = recv /\ last.err = NoErr

NextReply ==
    \/ \E id \in RequestIdentities :
          last.op = "none" /\ Output_WriteWithParams(1, [identity |-> id])
    \/ Succeeded("WriteWithParams", 1) /\ Input_Take(1)
    \/ \E g \in {"GetIdentityJSON", "GetIdentity"} :
          Succeeded("Take", 1) /\ Infos_getJSONMember(g, 1, 0)
    \/ /\ Succeeded("GetIdentityJSON", 1)
       /\ Output_WriteWithParams(2, [related_sample_identity |-> last.ret])
    \/ Succeeded("WriteWithParams", 2) /\ Input_Take(2)
    \/ \E g \in {"GetIdentity", "GetIdentityJSON", "GetRelatedIdentity",
                  "GetRelatedIdentityJSON"} :
          Succeeded("Take", 2) /\ Infos_getJSONMember(g, 2, 0)

SpecReply == InitReply /\ [][NextReply]_vars

----------------------------------------------------------------------------
(* Connector.Wait as a blocking call: the caller enters the native wait,   *)
(* time passes or data arrives, and the native wait returns.               *)

\* timeoutMs values a caller passes: -1 waits without limit
Timeouts == -1..MaxTimeout

\* connector.isValid(), then the call of RTI_Connector_wait_for_data
Wait_call(recv, timeoutMs) ==
    /\ ~crashed
    /\ Quiescent
    /\ IF Connector_isValid(recv) # NoErr
       THEN /\ Reject("Wait", recv, Connector_isValid(recv), 0)
            /\ UNCHANGED <<pc, waiting>>
       ELSE /\ waiting' = [blocked |-> TRUE, timeoutMs |-> timeoutMs, elapsed |-> 0, data |-> FALSE]
            /\ pc' = [pc EXCEPT ![1] = "wait"]
            /\ UNCHANGED <<crashed, last>>
    /\ UNCHANGED <<connVars, loc, mutex, dataVars>>

\* a millisecond passes in a wait that has a deadline
Tick ==
    /\ waiting.blocked
    /\ ~waiting.data
    /\ waiting.timeoutMs >= 0
    /\ waiting.elapsed < waiting.timeoutMs
    /\ waiting' = [waiting EXCEPT !.elapsed = @ + 1]
    /\ UNCHANGED <<connVars, goVars, dataVars, crashed, last>>

\* data becomes available on an Input of the Connector before the deadline
DataArrives ==
    /\ waiting.blocked
    /\ ~waiting.data
    /\ waiting.timeoutMs < 0 \/ waiting.elapsed < waiting.timeoutMs
    /\ waiting' = [waiting EXCEPT !.data = TRUE]
    /\ UNCHANGED <<connVars, goVars, dataVars, crashed, last>>

\* the native wait is over: data is available or the deadline has passed
WaitOver ==
    \/ waiting.data
    \/ waiting.timeoutMs >= 0 /\ waiting.elapsed >= waiting.timeoutMs

\* the status the native wait returns
WaitRetcode == IF waiting.data THEN DDSRetCodeOK ELSE DDSRetCodeTimeout

\* Wait that drops the status of the native wait and returns nil
Wait_return_unmapped ==
    /\ ~crashed
    /\ waiting.blocked
    /\ WaitOver
    /\ Finish(Done("Wait", 1, NoErr, 0,
                   <<NativeCall("RTI_Connector_wait_for_data", native)>>, Pre))
    /\ waiting' = [waiting EXCEPT !.blocked = FALSE]
    /\ pc' = [pc EXCEPT ![1] = "idle"]
    /\ UNCHANGED <<connVars, loc, mutex, dataVars>>

\* retcode := RTI_Connector_wait_for_data(...); return checkRetcode(retcode)
Wait_return ==
    /\ ~crashed
    /\ waiting.blocked
    /\ WaitOver
    /\ Finish(Answer("Wait", 1, NativeCall("RTI_Connector_wait_for_data", native),
                     WaitRetcode, <<>>, 0, 0, FALSE))
    /\ waiting' = [waiting EXCEPT !.blocked = FALSE]
    /\ pc' = [pc EXCEPT ![1] = "idle"]
    /\ UNCHANGED <<connVars, loc, mutex, dataVars>>

NextWait ==
    \/ \E found \in BOOLEAN : NewConnector(found)
    \/ \E recv \in ConnReceivers : Delete(recv)
    \/ \E recv \in ConnReceivers, n \in LookupNames : GetInput(recv, n)
    \/ \E recv \in ConnReceivers, t \in Timeouts : Wait_call(recv, t)
    \/ Tick
    \/ DataArrives
    \/ Wait_return

\* time passes, and a native wait that is over returns
SpecWait ==
    /\ Init
    /\ [][NextWait]_vars
    /\ WF_vars(Tick)
    /\ WF_vars(Wait_return)

----------------------------------------------------------------------------
(* Concurrent callers: each goroutine runs Connector.Delete one statement  *)
(* at a time on the Connector the main goroutine has set up.               *)

\* go func() { connector.Delete() }()
GoDelete(g) ==
    /\ ~crashed
    /\ conn = "ref"
    /\ pc[g] = "idle"
    /\ pc' = [pc EXCEPT ![g] = "check"]
    /\ loc' = [loc EXCEPT ![g].locked = FALSE]
    /\ UNCHANGED <<connVars, crashed, last, mutex, dataVars, waiting>>

\* go func() { mu.Lock(); defer mu.Unlock(); connector.Delete() }()
GoLockedDelete(g) ==
    /\ ~crashed
    /\ conn = "ref"
    /\ pc[g] = "idle"
    /\ mutex = 0
    /\ mutex' = g
    /\ pc' = [pc EXCEPT ![g] = "check"]
    /\ loc' = [loc EXCEPT ![g].locked = TRUE]
    /\ UNCHANGED <<connVars, crashed, last, dataVars, waiting>>

\* if connector.native == nil { return nil }
GoDeleteCheck(g) ==
    /\ ~crashed
    /\ pc[g] = "check"
    /\ pc' = [pc EXCEPT ![g] = IF native = "nil" THEN "ret" ELSE "rangeInputs"]
    /\ UNCHANGED <<connVars, crashed, last, loc, mutex, dataVars, waiting>>

\* for _, input := range connector.Inputs: the slice is read once
GoDeleteRangeInputs(g) ==
    /\ ~crashed
    /\ pc[g] = "rangeInputs"
    /\ loc' = [loc EXCEPT ![g].slice = Inputs, ![g].i = 1]
    /\ pc' = [pc EXCEPT ![g] = "freeInputs"]
    /\ UNCHANGED <<connVars, crashed, last, mutex, dataVars, waiting>>

\* one C.free of the loop; freeing a buffer that is already free is
\* undefined: the process may fault or go on
GoFree(g, next) ==
    IF loc[g].i > Len(loc[g].slice)
    THEN /\ pc' = [pc EXCEPT ![g] = next]
         /\ UNCHANGED <<heap, loc, crashed>>
    ELSE /\ heap' = [heap EXCEPT ![loc[g].slice[loc[g].i].nameCStr] = @ + 1]
         /\ loc' = [loc EXCEPT ![g].i = @ + 1]
         /\ crashed' \in (IF heap[loc[g].slice[loc[g].i].nameCStr] > 0 THEN BOOLEAN ELSE {FALSE})
         /\ UNCHANGED pc

\* C.free(unsafe.Pointer(input.nameCStr))
GoDeleteFreeInput(g) ==
    /\ ~crashed
    /\ pc[g] = "freeInputs"
    /\ GoFree(g, "rangeOutputs")
    /\ UNCHANGED <<conn, native, Inputs, Outputs, inputs, outputs, destroyCount, last, mutex, dataVars, waiting>>

\* for _, output := range connector.Outputs
GoDeleteRangeOutputs(g) ==
    /\ ~crashed
    /\ pc[g] = "rangeOutputs"
    /\ loc' = [loc EXCEPT ![g].slice = Outputs, ![g].i = 1]
    /\ pc' = [pc EXCEPT ![g] = "freeOutputs"]
    /\ UNCHANGED <<connVars, crashed, last, mutex, dataVars, waiting>>

\* C.free(unsafe.Pointer(output.nameCStr))
GoDeleteFreeOutput(g) ==
    /\ ~crashed
    /\ pc[g] = "freeOutputs"
    /\ GoFree(g, "delete")
    /\ UNCHANGED <<conn, native, Inputs, Outputs, inputs, outputs, destroyCount, last, mutex, dataVars, waiting>>

\* C.RTI_Connector_delete(connector.native): the pointer is read now; it
\* releases the root object it designates, which is undefined when that
\* object is already released or the pointer is nil
GoDeleteNative(g) ==
    /\ ~crashed
    /\ pc[g] = "delete"
    /\ IF native = "live"
       THEN /\ destroyCount' = destroyCount + 1
            /\ crashed' \in (IF destroyCount > 0 THEN BOOLEAN ELSE {FALSE})
       ELSE /\ destroyCount' = destroyCount
            /\ crashed' \in BOOLEAN
    /\ pc' = [pc EXCEPT ![g] = "setNil"]
    /\ UNCHANGED <<conn, native, Inputs, Outputs, inputs, outputs, heap, last, loc, mutex, dataVars, waiting>>

\* the statement left out: the root handle keeps its value
GoDeleteSetNil_skip(g) ==
    /\ ~crashed
    /\ pc[g] = "setNil"
    /\ pc' = [pc EXCEPT ![g] = "clearInputs"]
    /\ UNCHANGED <<connVars, crashed, last, loc, mutex, dataVars, waiting>>

\* connector.native = nil
GoDeleteSetNil(g) ==
    /\ ~crashed
    /\ pc[g] = "setNil"
    /\ native' = "nil"
    /\ pc' = [pc EXCEPT ![g] = "clearInputs"]
    /\ UNCHANGED <<conn, Inputs, Outputs, inputs, outputs, heap, destroyCount, crashed, last, loc, mutex, dataVars, waiting>>

\* connector.Inputs = nil
GoDeleteClearInputs(g) ==
    /\ ~crashed
    /\ pc[g] = "clearInputs"
    /\ Inputs' = <<>>
    /\ pc' = [pc EXCEPT ![g] = "clearOutputs"]
    /\ UNCHANGED <<conn, native, Outputs, inputs, outputs, heap, destroyCount, crashed, last, loc, mutex, dataVars, waiting>>

\* connector.Outputs = nil
GoDeleteClearOutputs(g) ==
    /\ ~crashed
    /\ pc[g] = "clearOutputs"
    /\ Outputs' = <<>>
    /\ pc' = [pc EXCEPT ![g] = "ret"]
    /\ UNCHANGED <<conn, native, Inputs, inputs, outputs, heap, destroyCount, crashed, last, loc, mutex, dataVars, waiting>>

\* return nil, and the deferred mu.Unlock() of a caller that holds the mutex
GoDeleteReturn(g) ==
    /\ ~crashed
    /\ pc[g] = "ret"
    /\ pc' = [pc EXCEPT ![g] = "done"]
    /\ mutex' = IF loc[g].locked THEN 0 ELSE mutex
    /\ UNCHANGED <<connVars, crashed, last, loc, dataVars, waiting>>

NextConc ==
    \/ \E found \in BOOLEAN : NewConnector(found)
    \/ \E recv \in ConnReceivers, n \in LookupNames : GetOutput(recv, n)
    \/ \E recv \in ConnReceivers, n \in LookupNames : GetInput(recv, n)
    \/ \E g \in Goroutines : GoDelete(g)
    \/ \E g \in Goroutines : GoLockedDelete(g)
    \/ \E g \in Goroutines : GoDeleteCheck(g)
    \/ \E g \in Goroutines : GoDeleteRangeInputs(g)
    \/ \E g \in Goroutines : GoDeleteFreeInput(g)
    \/ \E g \in Goroutines : GoDeleteRangeOutputs(g)
    \/ \E g \in Goroutines : GoDeleteFreeOutput(g)
    \/ \E g \in Goroutines : GoDeleteNative(g)
    \/ \E g \in Goroutines : GoDeleteSetNil(g)
    \/ \E g \in Goroutines : GoDeleteClearInputs(g)
    \/ \E g \in Goroutines : GoDeleteClearOutputs(g)
    \/ \E g \in Goroutines : GoDeleteReturn(g)

SpecConc == Init /\ [][NextConc]_vars

----------------------------------------------------------------------------
(* Write against Delete: goroutines call Output.Write or Connector.Delete  *)
(* on the Connector of the data flow, one statement at a time.             *)

\* the state after NewConnector, GetOutput and GetInput; each goroutine
\* remembers the root handle its validity check read (valid) and the one it
\* handed to the native write (handle)
InitRace ==
    /\ conn = "ref"
    /\ native = "live"
    /\ Inputs = <<DataInput>>
    /\ Outputs = <<DataOutput>>
    /\ inputs = <<DataInput>>
    /\ outputs = <<DataOutput>>
    /\ heap = <<0, 0>>
    /\ destroyCount = 0
    /\ crashed = FALSE
    /\ pc = [g \in Goroutines |-> "idle"]
    /\ loc = [g \in Goroutines |-> [slice |-> <<>>, i |-> 0, locked |-> FALSE,
                                    valid |-> "none", handle |-> "none"]]
    /\ mutex = 0
    /\ queue = <<0>>
    /\ samples = <<0>>
    /\ staged = [n \in WriterNames |-> DefaultFields]
    /\ lastSet = [n \in WriterNames |-> DefaultFields]
    /\ readerData = << <<>> >>
    /\ sampleData = << <<>> >>
    /\ matched = TRUE
    /\ waiting = NotWaiting
    /\ last = Done("none", 0, NoErr, 0, <<>>, Pre)

\* go func() { output.Write() }()
GoOutputWrite(g) ==
    /\ ~crashed
    /\ pc[g] = "idle"
    /\ pc' = [pc EXCEPT ![g] = "isValid"]
    /\ loc' = [loc EXCEPT ![g].locked = FALSE]
    /\ UNCHANGED <<connVars, crashed, last, mutex, dataVars, waiting>>

\* a locked Write that goes on without the mutex
GoLockedOutputWrite_nolock(g) ==
    /\ ~crashed
    /\ pc[g] = "idle"
    /\ pc' = [pc EXCEPT ![g] = "isValid"]
    /\ loc' = [loc EXCEPT ![g].locked = TRUE]
    /\ UNCHANGED <<connVars, crashed, last, mutex, dataVars, waiting>>

\* go func() { mu.Lock(); defer mu.Unlock(); output.Write() }()
GoLockedOutputWrite(g) ==
    /\ ~crashed
    /\ pc[g] = "idle"
    /\ mutex = 0
    /\ mutex' = g
    /\ pc' = [pc EXCEPT ![g] = "isValid"]
    /\ loc' = [loc EXCEPT ![g].locked = TRUE]
    /\ UNCHANGED <<connVars, crashed, last, dataVars, waiting>>

\* if err := output.isValid(); err != nil { return err }: the root handle is
\* read for the test
GoWriteIsValid(g) ==
    /\ ~crashed
    /\ pc[g] = "isValid"
    /\ loc' = [loc EXCEPT ![g].valid = native]
    /\ IF Output_isValid(1) # NoErr
       THEN /\ Reject("Write", 1, Output_isValid(1), 0)
            /\ pc' = [pc EXCEPT ![g] = "return"]
       ELSE /\ pc' = [pc EXCEPT ![g] = "dispatch"]
            /\ UNCHANGED <<last, crashed>>
    /\ UNCHANGED <<connVars, mutex, dataVars, waiting>>

\* the root handle as a native call finds it: live, destroyed by
\* RTI_Connector_delete but still held by the Connector, or nil
RootHandle ==
    IF native = "nil" THEN "nil" ELSE IF destroyCount > 0 THEN "stale" ELSE "live"

\* C.RTI_Connector_write(output.connector.native, output.nameCStr, nil): the
\* root handle is read again for the call
GoWriteDispatch(g) ==
    /\ ~crashed
    /\ pc[g] = "dispatch"
    /\ loc' = [loc EXCEPT ![g].handle = RootHandle]
    /\ Publish("Write", 1, RootHandle, NoParams)
    /\ pc' = [pc EXCEPT ![g] = "return"]
    /\ UNCHANGED <<connVars, mutex, waiting>>

\* return checkRetcode(retcode), and the deferred mu.Unlock() of a caller
\* that holds the mutex
GoWriteDone(g) ==
    /\ ~crashed
    /\ pc[g] = "return"
    /\ pc' = [pc EXCEPT ![g] = "done"]
    /\ mutex' = IF loc[g].locked THEN 0 ELSE mutex
    /\ UNCHANGED <<connVars, crashed, last, loc, dataVars, waiting>>

NextRace ==
    \/ \E g \in Goroutines : GoOutputWrite(g)
    \/ \E g \in Goroutines : GoLockedOutputWrite(g)
    \/ \E g \in Goroutines : GoWriteIsValid(g)
    \/ \E g \in Goroutines : GoWriteDispatch(g)
    \/ \E g \in Goroutines : GoWriteDone(g)
    \/ \E g \in Goroutines : GoDelete(g)
    \/ \E g \in Goroutines : GoLockedDelete(g)
    \/ \E g \in Goroutines : GoDeleteCheck(g)
    \/ \E g \in Goroutines : GoDeleteRangeInputs(g)
    \/ \E g \in Goroutines : GoDeleteFreeInput(g)
    \/ \E g \in Goroutines : GoDeleteRangeOutputs(g)
    \/ \E g \in Goroutines : GoDeleteFreeOutput(g)
    \/ \E g \in Goroutines : GoDeleteNative(g)
    \/ \E g \in Goroutines : GoDeleteSetNil(g)
    \/ \E g \in Goroutines : GoDeleteClearInputs(g)
    \/ \E g \in Goroutines : GoDeleteClearOutputs(g)
    \/ \E g \in Goroutines : GoDeleteReturn(g)

SpecRace == InitRace /\ [][NextRace]_vars

----------------------------------------------------------------------------
(* Properties *)

\* the operation recorded in last was called on the Connector itself
OnConnector == last.recv = 1

\* the operation recorded in last was called on a handle obtained from the
\* Connector, or on a view or Instance of one, after the Connector was deleted
OnChildAfterDelete == last.recv >= 1 /\ last.pre.native = "nil" /\ last.pre.destroyCount > 0

OutputOpNames ==
    {"Write", "WriteWithParams", "ClearMembers", "WaitForSubscriptions", "GetMatchedSubscriptions"}
SamplesOpNames == NumericGetters \cup {"Samples.GetLength", "GetBoolean", "GetString", "GetJSON", "Get"}
InfosOpNames == MemberGetters \cup {"IsValid", "Infos.GetLength"}
InstanceOpNames == NumericSetters \cup {"SetString", "SetBoolean", "SetJSON", "Set"}

\* the name buffers of the handles in a collection
NameBufs(handles) == {handles[i].nameCStr : i \in 1..Len(handles)}

\* C1: in every reachable state no native call was dispatched with an absent
\* root handle, and an operation that started after Delete released the root
\* handle made no native call at all.
C1_NoDispatchOnAbsentRoot ==
    /\ \A i \in 1..Len(last.calls) : last.calls[i].self # "nil"
    /\ last.pre.destroyCount > 0 => last.calls = <<>>

\* C2: every Delete on a created Connector returns nil, and a Delete that
\* finds the Connector already deleted makes no native call, frees nothing
\* and leaves the Connector as it was.
C2_DeleteIdempotent ==
    (last.op = "Delete" /\ OnConnector) =>
        /\ last.err = NoErr
        /\ ~crashed
        /\ last.pre.native = "nil" => (last.calls = <<>> /\ Pre = last.pre)

C2_Witness ==
    /\ last.op = "Delete" /\ OnConnector
    /\ last.pre.native = "nil" /\ last.pre.destroyCount = 1
    /\ Len(inputs) > 0 /\ Len(outputs) > 0

\* C3: the root handle is destroyed at most once and every name buffer is
\* freed at most once; the first Delete destroys the root handle and frees
\* the buffer of every registered Input and Output; afterwards the root
\* handle is absent, both collections are empty and every buffer handed to a
\* handle has been freed exactly once.
C3_ReleasedExactlyOnce ==
    /\ destroyCount <= 1
    /\ \A b \in DOMAIN heap : heap[b] <= 1
    /\ native = "live" =>
          /\ destroyCount = 0
          /\ \A b \in NameBufs(Inputs) \cup NameBufs(Outputs) : heap[b] = 0
    /\ (conn = "ref" /\ native = "nil") =>
          /\ destroyCount = 1
          /\ Inputs = <<>> /\ Outputs = <<>>
          /\ \A b \in NameBufs(inputs) \cup NameBufs(outputs) : heap[b] = 1
    /\ (last.op = "Delete" /\ OnConnector /\ last.pre.native = "live") =>
          /\ destroyCount = last.pre.destroyCount + 1
          /\ \A b \in NameBufs(last.pre.Inputs) \cup NameBufs(last.pre.Outputs) :
                last.pre.heap[b] = 0 /\ heap[b] = 1

C3_Witness ==
    /\ last.op = "Delete" /\ OnConnector /\ last.pre.native = "live"
    /\ Len(last.pre.Inputs) > 0 /\ Len(last.pre.Outputs) > 0
    /\ native = "nil" /\ destroyCount = 1

\* C4 as stated: in every interleaving of concurrent Delete calls no name
\* buffer and no root handle is released more than once.
C4_NoDoubleRelease ==
    /\ \A b \in DOMAIN heap : heap[b] <= 1
    /\ destroyCount <= 1

\* C4 amended: when every goroutine that calls Delete holds the caller's
\* mutex over its whole call, no name buffer and no root handle is released
\* more than once in any interleaving.
C4_SerializedNoDoubleRelease ==
    (\A g \in Goroutines : pc[g] # "idle" => loc[g].locked) =>
        /\ \A b \in DOMAIN heap : heap[b] < 2
        /\ destroyCount < 2
        /\ ~crashed

C4_Witness ==
    /\ \A g \in Goroutines : pc[g] = "done" /\ loc[g].locked
    /\ Len(inputs) > 0 /\ Len(outputs) > 0
    /\ heap[inputs[1].nameCStr] = 1 /\ heap[outputs[1].nameCStr] = 1
    /\ destroyCount = 1

\* C5: GetInput, GetOutput and Wait called on a deleted Connector return an
\* error naming the deletion, return no handle, allocate no name buffer, make
\* no native call and leave the Connector unchanged.
C5_ConnectorOpsAfterDelete ==
    (last.op \in {"GetInput", "GetOutput", "Wait"} /\ OnConnector /\ last.pre.native = "nil") =>
        /\ last.err # NoErr
        /\ Contains(last.err, "deleted")
        /\ last.ret = 0
        /\ last.calls = <<>>
        /\ Pre = last.pre

C5_Witness ==
    /\ last.op = "GetInput" /\ OnConnector /\ last.pre.native = "nil"
    /\ last.pre.destroyCount = 1

\* C6: every Output operation called on a handle whose Connector was deleted
\* returns an error naming the deletion and makes no native call.
C6_OutputOpsAfterDelete ==
    (last.op \in OutputOpNames /\ OnChildAfterDelete) =>
        /\ Contains(last.err, "deleted")
        /\ last.calls = <<>>

C6_Witness ==
    /\ last.op = "WriteWithParams" /\ OnChildAfterDelete
    /\ Contains(last.err, "deleted")

\* C7: Read and Take called on an Input whose Connector was deleted return an
\* error naming the deletion and make no native call.
C7_ReadTakeAfterDelete ==
    (last.op \in {"Read", "Take"} /\ OnChildAfterDelete) =>
        /\ Contains(last.err, "deleted")
        /\ last.calls = <<>>

\* C8: ReturnLoan, WaitForPublications and GetMatchedPublications called on an
\* Input whose Connector was deleted return an error naming the deletion and
\* make no native call, with the absent root handle or with the stale reader
\* pointer.
C8_OtherInputOpsAfterDelete ==
    (last.op \in {"ReturnLoan", "WaitForPublications", "GetMatchedPublications"}
       /\ OnChildAfterDelete) =>
        /\ Contains(last.err, "deleted")
        /\ \A i \in 1..Len(last.calls) : last.calls[i].self \notin {"nil", "stale"}
        /\ last.calls = <<>>

\* C9: every accessor of Samples, Infos and Instance called after the owning
\* Connector was deleted returns an error naming the deletion before any
\* native call is attempted.
C9_AccessorsAfterDelete ==
    (last.op \in SamplesOpNames \cup InfosOpNames \cup InstanceOpNames /\ OnChildAfterDelete) =>
        /\ Contains(last.err, "deleted")
        /\ last.calls = <<>>

\* C10: once the Connector is deleted its root handle stays absent, and of
\* the operations on the Connector only Delete succeeds from then on.
C10_ClosedIsPermanent ==
    [][(conn = "ref" /\ native = "nil") =>
          /\ conn' = "ref" /\ native' = "nil"
          /\ destroyCount' = destroyCount
          /\ (last'.op \in {"GetInput", "GetOutput", "Wait"} /\ last'.recv = 1) => last'.err # NoErr
          /\ (last'.op = "Delete" /\ last'.recv = 1) => last'.err = NoErr]_vars

C10_Witness ==
    /\ conn = "ref" /\ native = "nil"
    /\ last.op = "Wait" /\ OnConnector /\ last.pre.native = "nil"
    /\ Len(inputs) > 0

\* C11: a GetInput or GetOutput on an open Connector whose lookup fails
\* returns no handle and an error, has allocated exactly one name buffer and
\* freed it once, and leaves Inputs, Outputs and the handles held by the
\* caller as they were; while the Connector is open the name buffers not yet
\* freed are as many as the registered handles.
C11_FailedLookupFreesBuffer ==
    /\ (last.op \in {"GetInput", "GetOutput"} /\ OnConnector
          /\ last.pre.native = "live" /\ last.err # NoErr) =>
           /\ last.ret = 0
           /\ Len(heap) = Len(last.pre.heap) + 1
           /\ SubSeq(heap, 1, Len(last.pre.heap)) = last.pre.heap
           /\ heap[Len(heap)] = 1
           /\ Inputs = last.pre.Inputs /\ Outputs = last.pre.Outputs
           /\ inputs = last.pre.inputs /\ outputs = last.pre.outputs
           /\ native = "live"
    /\ native = "live" =>
           Cardinality({b \in DOMAIN heap : heap[b] = 0}) = Len(Inputs) + Len(Outputs)

C11_Witness ==
    /\ last.op = "GetInput" /\ OnConnector /\ last.pre.native = "live" /\ last.err # NoErr
    /\ Len(Inputs) + Len(Outputs) = 1
    /\ Len(heap) = 2

\* C12: a successful GetInput on an open Connector appends exactly the
\* returned handle to Inputs and leaves Outputs alone, and the handle's
\* Samples and Infos are set; likewise GetOutput with Outputs and Instance;
\* while the Connector is open, Inputs and Outputs together hold as many
\* entries as lookups have succeeded, whatever names were asked for.
C12_SuccessfulLookupRegisters ==
    /\ (last.op = "GetInput" /\ OnConnector /\ last.err = NoErr) =>
           /\ last.ret = Len(inputs)
           /\ inputs = Append(last.pre.inputs, inputs[last.ret])
           /\ Inputs = Append(last.pre.Inputs, inputs[last.ret])
           /\ Outputs = last.pre.Outputs
           /\ inputs[last.ret].Samples # "nil"
           /\ inputs[last.ret].Infos # "nil"
    /\ (last.op = "GetOutput" /\ OnConnector /\ last.err = NoErr) =>
           /\ last.ret = Len(outputs)
           /\ outputs = Append(last.pre.outputs, outputs[last.ret])
           /\ Outputs = Append(last.pre.Outputs, outputs[last.ret])
           /\ Inputs = last.pre.Inputs
           /\ outputs[last.ret].Instance # "nil"
    /\ native = "live" => Len(Inputs) + Len(Outputs) = Len(inputs) + Len(outputs)

C12_Witness ==
    /\ last.op = "GetInput" /\ OnConnector /\ last.err = NoErr
    /\ native = "live"
    /\ Len(Inputs) = 2
    /\ Inputs[1].name = Inputs[2].name
    /\ Inputs[1].nameCStr # Inputs[2].nameCStr

\* C13: a NewConnector that fails returns no Connector and an error, leaves
\* no native root handle, no registered handle and no name buffer behind, and
\* has freed each of its two transient C strings exactly once.
C13_FailedNewConnector ==
    (last.op = "NewConnector" /\ last.err # NoErr) =>
        /\ conn = "nil"
        /\ last.ret = 0
        /\ native = "nil"
        /\ Inputs = <<>> /\ Outputs = <<>>
        /\ heap = <<>>
        /\ Len(last.transient) = 2
        /\ \A k \in 1..Len(last.transient) : last.transient[k] = 1
        /\ ~crashed

C13_Witness ==
    /\ last.op = "NewConnector" /\ last.err # NoErr
    /\ conn = "nil"
    /\ last.calls = <<NativeCall("RTI_Connector_new", "none")>>

\* err carries the words of text, in order and adjacent
Carries(err, text) ==
    \E i \in 1..(Len(err) - Len(text) + 1) : SubSeq(err, i, i + Len(text) - 1) = text

\* the outcome C14 requires for a status code and a last-error text
MapsAsSpecified(code, msg, err) ==
    /\ code = 0 => err = NoErr
    /\ code = 11 => err = ErrNoData
    /\ code = 10 => err = ErrTimeout
    /\ code \notin {0, 10, 11} =>
          /\ err \notin {NoErr, ErrNoData, ErrTimeout}
          /\ msg # <<>> => Carries(err, msg)
          /\ msg = <<>> => Carries(err, <<"error", "code", ToString(code)>>)

\* C14: checkRetcode maps 0 to nil, 11 to ErrNoData, 10 to ErrTimeout and
\* every other code N to an error that is none of these and carries the
\* native last-error text, or "error code N" when that text is empty; every
\* operation that returns the status of a native call returns that mapping.
C14_RetcodeMapping ==
    /\ \A code \in StatusCodes, msg \in NativeMessages :
           MapsAsSpecified(code, msg, checkRetcode(code, msg))
    /\ last.retcodes # <<>> => MapsAsSpecified(last.retcodes[1], last.errMsg, last.err)

C14_Witness ==
    /\ last.op = "Wait"
    /\ last.retcodes = <<RetCodeError>>
    /\ last.errMsg = <<"native", "failure">>
    /\ Carries(last.err, <<"native", "failure">>)

\* the operation recorded in last was called with a negative index on the
\* Samples or Infos of an Input handle
NegativeIndex == last.recv >= 1 /\ last.args # <<>> /\ last.args[1] < 0

\* C15: Infos.IsValid called with a negative index on the Infos of an Input
\* returns false and an error whose text contains "negative", and makes no
\* native call.
C15_IsValidNegativeIndex ==
    (last.op = "IsValid" /\ NegativeIndex) =>
        /\ last.ret = 0
        /\ Contains(last.err, "negative")
        /\ last.calls = <<>>
        /\ ~crashed

C15_Witness ==
    /\ last.op = "IsValid" /\ NegativeIndex
    /\ last.pre.native = "live"
    /\ last.pre.samples[last.recv] > 0
    /\ Contains(last.err, "negative")

ConnectorOpNames == {"Delete", "GetInput", "GetOutput", "Wait"}
InputOpNames == {"Read", "Take", "WaitForPublications", "GetMatchedPublications", "ReturnLoan"}

\* the accessors of Samples and Infos that take an index, IsValid apart
IndexedSamplesOpNames == NumericGetters \cup {"GetBoolean", "GetString", "GetJSON", "Get"}
IndexedInfosOpNames == MemberGetters

\* C16: every index-taking accessor of Samples and Infos other than IsValid,
\* called with a negative index, returns an error of its own and makes no
\* native call.
C16_NegativeIndexRejected ==
    (last.op \in IndexedSamplesOpNames \cup IndexedInfosOpNames /\ NegativeIndex) =>
        /\ last.err # NoErr
        /\ last.err # ErrPanic
        /\ last.calls = <<>>

\* the operation recorded in last was called on the Samples or Infos of an
\* Input handle with an index at or beyond the samples that Input held
IndexPastLength ==
    /\ last.recv >= 1 /\ last.args # <<>>
    /\ last.args[1] >= last.pre.samples[last.recv]

\* C17: every indexed accessor of Samples and Infos called with an index
\* greater than or equal to the current length returns an error without
\* making the native call, and that error is not the negative-index one.
C17_OutOfRangeRejected ==
    (last.op \in IndexedSamplesOpNames \cup IndexedInfosOpNames \cup {"IsValid"}
       /\ IndexPastLength) =>
        /\ last.err # NoErr
        /\ last.err # ErrPanic
        /\ ~Contains(last.err, "negative")
        /\ last.calls = <<>>

\* C18: every method of Connector, Input, Output and Samples called on a nil
\* receiver returns an error, does not fault, makes no native call and
\* changes nothing; Delete on a nil Connector is one of them.
C18_NilReceiverRejected ==
    (last.recv = 0
       /\ last.op \in ConnectorOpNames \cup InputOpNames \cup OutputOpNames \cup SamplesOpNames) =>
        /\ last.err # NoErr
        /\ last.err # ErrPanic
        /\ ~crashed
        /\ last.calls = <<>>
        /\ Pre = last.pre

C18_Witness ==
    /\ last.op = "Delete" /\ last.recv = 0
    /\ Contains(last.err, "null")
    /\ conn = "ref" /\ native = "live"
    /\ Len(Inputs) > 0

\* C19: every method of Infos and of Instance called on a nil receiver
\* returns an error and does not fault.
C19_InfosInstanceNilReceiver ==
    (last.recv = 0 /\ last.op \in InfosOpNames \cup InstanceOpNames) =>
        /\ last.err # NoErr
        /\ last.err # ErrPanic
        /\ ~crashed

\* a Wait call with a deadline is blocked in the native layer
BlockedWithDeadline == waiting.blocked /\ waiting.timeoutMs >= 0

\* the last operation is a Wait with a deadline that went into the native
\* wait and came back without data having arrived
WaitedInVain ==
    /\ last.op = "Wait" /\ OnConnector /\ last.calls # <<>>
    /\ ~waiting.blocked
    /\ waiting.timeoutMs >= 0
    /\ ~waiting.data

\* C20: a Wait with a timeout t >= 0 on an open Connector eventually
\* returns, and when no data arrived before the deadline it returns
\* ErrTimeout, not nil and not ErrNoData.
C20_WaitTimesOut ==
    /\ [](WaitedInVain => (last.err = ErrTimeout /\ last.err # NoErr /\ last.err # ErrNoData))
    /\ (BlockedWithDeadline ~> ~waiting.blocked)

C20_Witness ==
    /\ WaitedInVain
    /\ waiting.timeoutMs > 0
    /\ waiting.elapsed = waiting.timeoutMs
    /\ last.err = ErrTimeout

----------------------------------------------------------------------------
(* Data flow *)

\* the sample carries in field f what the caller had last set in it
FieldCarries(s, f) ==
    IF FieldKind(f) = "number" THEN s.data[f] = ToDouble(s.set[f]) ELSE s.data[f] = s.set[f]

\* every sample in a reader's queue, and every sample an Input holds, carries
\* in each field what the caller had last set in it when it wrote
SamplesCarrySets ==
    \A i \in 1..Len(readerData) :
        /\ \A k \in 1..Len(readerData[i]) : \A f \in TopicFields :
              FieldCarries(readerData[i][k], f)
        /\ \A k \in 1..Len(sampleData[i]) : \A f \in TopicFields :
              FieldCarries(sampleData[i][k], f)

\* C21: a setter of the Instance (Set*, SetJSON, Set) makes no sample
\* available to any Input; a reader's queue grows only by a successful Write
\* or WriteWithParams, by the one sample that holds the staged record; and
\* that sample carries, for each field, the value of the most recent
\* successful set before the write.
C21_StagedUntilWritten ==
    /\ (last.op \in InstanceOpNames) =>
           (readerData = last.pre.readerData /\ sampleData = last.pre.sampleData)
    /\ \A i \in 1..Len(last.pre.readerData) :
           (Len(readerData[i]) > Len(last.pre.readerData[i])) =>
               /\ last.op \in {"Write", "WriteWithParams"}
               /\ last.err = NoErr
               /\ Len(readerData[i]) = Len(last.pre.readerData[i]) + 1
               /\ SubSeq(readerData[i], 1, Len(last.pre.readerData[i])) = last.pre.readerData[i]
               /\ readerData[i][Len(readerData[i])].data
                      = last.pre.staged[OutputAt(last.recv).name]
               /\ readerData[i][Len(readerData[i])].set = lastSet[OutputAt(last.recv).name]
    /\ SamplesCarrySets

C21_Witness ==
    /\ last.op = "Write" /\ last.err = NoErr
    /\ last.pre.readerData[1] = <<>>
    /\ readerData[1] # <<>>
    /\ readerData[1][1].data = [x |-> MaxInt32, st |-> "test", b |-> TRUE]
    /\ readerData[1][1].set = [x |-> MaxInt32, st |-> "test", b |-> TRUE]

\* the sample at index 0 of the Input the last operation read from, as the
\* Input held it when the operation started
SampleRead == last.pre.sampleData[last.recv][1]

\* the last operation is a getter of a field of the topic type, called on
\* index 0 of an Input that holds a sample, and the native layer answered OK
ReadOfFirstSample ==
    /\ last.op \in NumericGetters \cup {"GetString", "GetBoolean"}
    /\ last.recv >= 1
    /\ last.args = <<0>>
    /\ last.field \in TopicFields
    /\ Len(last.pre.sampleData[last.recv]) >= 1
    /\ last.retcodes = <<DDSRetCodeOK>>

C23_NarrowedWithoutError ==
    (last.op \in NumericGetters /\ last.recv >= 1) =>
        /\ last.calls # <<>>
        /\ last.calls[1].fn = "RTI_Connector_get_number_from_sample"
        /\ \A k \in 2..Len(last.calls) :
               last.calls[k].fn = "RTI_Connector_get_last_error_message"
        /\ ReadOfFirstSample =>
               /\ last.err = NoErr
               /\ InRange(NumberType(last.op), last.ret)
               /\ InRange(NumberType(last.op), SampleRead.data[last.field])
                      => last.ret = SampleRead.data[last.field]

C23_Witness ==
    /\ ReadOfFirstSample
    /\ last.op = "GetInt8"
    /\ SampleRead.data.x = MaxInt32
    /\ last.err = NoErr
    /\ last.ret = -1

\* the fields of the Go struct v that the topic type has a member for
TopicFieldsOf(v) == {f \in DOMAIN v : JSONName(f) \in TopicFields}

Fetched == last.op \in {"Read", "Take"} /\ last.recv >= 1 /\ last.pre.native = "live"

\* C27: a successful Read hands the Input the samples of the reader's queue
\* and leaves the queue as it was, so the next Read or Take finds the same
\* samples; a successful Take hands them over and empties the queue; a Read
\* or Take that finds the queue empty, as after a Take with no write since,
\* returns an error, ErrNoData when the native layer reports no data, and
\* leaves the Input without a sample then.
C27_TakeRemovesReadKeeps ==
    /\ (Fetched /\ last.err = NoErr) =>
           /\ last.pre.readerData[last.recv] # <<>>
           /\ sampleData[last.recv] = last.pre.readerData[last.recv]
           /\ last.op = "Read" => readerData = last.pre.readerData
           /\ last.op = "Take" => readerData[last.recv] = <<>>
    /\ (Fetched /\ last.pre.readerData[last.recv] = <<>>) =>
           /\ last.err # NoErr
           /\ last.retcodes = <<DDSRetCodeNoData>> =>
                  (last.err = ErrNoData /\ sampleData[last.recv] = <<>>)
           /\ readerData = last.pre.readerData

C27_Witness ==
    /\ Fetched /\ last.op = "Read"
    /\ last.err = ErrNoData
    /\ last.pre.readerData[last.recv] = <<>>
    /\ last.pre.sampleData[last.recv] # <<>>

\* the last operation is an accessor called on a valid Samples or Instance
\* with a field name the topic type does not have
UnknownField ==
    /\ last.op \in NumericGetters \cup {"GetString", "GetBoolean"} \cup NumericSetters
                   \cup {"SetString", "SetBoolean"}
    /\ last.recv >= 1
    /\ last.field = "nonexistent_field"

\* C28: a getter of Samples or a setter of Instance called with a field name
\* the type does not have returns a non-nil error; and a setter of any kind
\* that returns an error leaves every field of the staged record as it was.
C28_UnknownFieldFails ==
    /\ UnknownField => last.err # NoErr
    /\ (last.op \in InstanceOpNames /\ last.recv >= 1 /\ last.err # NoErr) =>
           staged = last.pre.staged

C28_Witness ==
    /\ UnknownField
    /\ last.op = "SetString"
    /\ last.err # NoErr
    /\ last.calls # <<>>
    /\ staged = last.pre.staged
    /\ staged[OutputAt(last.recv).name].st = "test"

\* the last operation is a field setter called on a valid Instance with the
\* empty field name
EmptyFieldName ==
    /\ last.op \in NumericSetters \cup {"SetString", "SetBoolean"}
    /\ last.recv >= 1
    /\ last.field = ""

\* C29: every field setter of Instance called with an empty field name
\* returns an error without making a native call and leaves the staged
\* record as it was.
C29_EmptyFieldNameRejectedLocally ==
    EmptyFieldName =>
        /\ last.err # NoErr
        /\ last.calls = <<>>
        /\ staged = last.pre.staged

----------------------------------------------------------------------------
(* Concurrent writers *)

\* every goroutine that has started holds the mutex of the caller
AllWritersLocked == \A g \in Goroutines : pc[g] # "idle" => loc[g].locked

\* goroutine g has returned from Write
HasWritten(g) == pc[g] \in {"ret", "done"}

C30_ForeignValuePublished ==
    \E g \in Goroutines :
        /\ ~loc[g].locked
        /\ pc[g] = "done"
        /\ loc[g].setCode = DDSRetCodeOK /\ loc[g].err = NoErr
        /\ loc[g].wrote # <<>>
        /\ loc[g].wrote[1].data.x # g

----------------------------------------------------------------------------
(* Request and reply *)

\* the request the replier holds
RequestHeld == sampleData[1][1]

\* C25: the request written with an identity of the requester reaches the
\* request reader alone and under that identity; the replier's Take yields
\* exactly that one sample; and on the reply the requester took,
\* GetRelatedIdentity returns the Identity that GetIdentity returns on the
\* request, and GetRelatedIdentityJSON the JSON of it.
C25_IdentityCorrelation ==
    /\ Succeeded("WriteWithParams", 1) =>
           /\ Len(readerData[1]) = 1 /\ readerData[2] = <<>>
           /\ readerData[1][1].identity = last.value.identity
    /\ Succeeded("Take", 1) =>
           /\ Len(sampleData[1]) = 1
           /\ sampleData[1] = last.pre.readerData[1]
    /\ Succeeded("GetIdentity", 1) => last.ret = ToIdentity(RequestHeld.identity)
    /\ Succeeded("Take", 2) => Len(sampleData[2]) = 1
    /\ Succeeded("GetRelatedIdentity", 2) =>
           /\ last.ret = ToIdentity(RequestHeld.identity)
           /\ RequestHeld.identity \in RequestIdentities
    /\ Succeeded("GetRelatedIdentityJSON", 2) => last.ret = RequestHeld.identity

C25_Witness ==
    /\ Succeeded("GetRelatedIdentity", 2)
    /\ last.args = <<0>>
    /\ RequestHeld.identity = JSONIdentity([k \in 1..GUIDLen |-> k], 42)
    /\ last.ret = [WriterGUID |-> [k \in 1..GUIDLen |-> k], SequenceNumber |-> 42]
    /\ sampleData[2][1].related = RequestHeld.identity

----------------------------------------------------------------------------
(* Clearing the staged record *)

\* the last operation is a ClearMembers on a valid Output that returned nil
Cleared == last.op = "ClearMembers" /\ last.recv >= 1 /\ last.err = NoErr

\* C31: a ClearMembers that returns nil made the one native call
\* RTI_Connector_clear and left every field of the staged record at the
\* default value of the type, whatever was set before; and a Write that
\* returns nil publishes the record as it is staged then, so the first Write
\* after the clear publishes the defaults and the fields set since.
C31_ClearedBeforeWrite ==
    /\ Cleared =>
           /\ last.calls = <<NativeCall("RTI_Connector_clear", "live")>>
           /\ staged[OutputAt(last.recv).name] = DefaultFields
           /\ lastSet[OutputAt(last.recv).name] = DefaultFields
           /\ readerData = last.pre.readerData
    /\ (last.op = "Write" /\ last.recv >= 1 /\ last.err = NoErr) =>
           \A i \in 1..Len(readerData) :
               Matches(last.recv, i) =>
                   /\ readerData[i] # <<>>
                   /\ readerData[i][Len(readerData[i])].data =
                         last.pre.staged[OutputAt(last.recv).name]
    /\ SamplesCarrySets

C31_Witness ==
    /\ Cleared
    /\ last.pre.staged[OutputAt(last.recv).name].st = "test"
    /\ staged[OutputAt(last.recv).name].st = ""
    /\ staged[OutputAt(last.recv).name] = DefaultFields

----------------------------------------------------------------------------
(* Transient C strings *)

\* the transient C strings an operation allocates once it is past its local
\* checks: the configuration name and URL, a field name, a member name, a
\* field name and a string value, a JSON payload, the write parameters
TransientStrings(op) ==
    IF op \in {"NewConnector", "SetString"} THEN 2
    ELSE IF op \in NumericGetters \cup NumericSetters \cup MemberGetters
                   \cup {"GetBoolean", "GetString", "IsValid", "SetBoolean", "SetJSON", "Set",
                         "WriteWithParams"} THEN 1
    ELSE 0

\* the last operation returned to its caller, with or without an error
Returned == last.op # "none" /\ last.err # ErrPanic

\* C32: when an operation has returned, with nil or with an error, each
\* transient C string it allocated has been freed exactly once: it allocated
\* none when it was rejected before the allocation and all of its strings
\* when it reached the native layer; the name buffers still allocated are
\* those of the handles registered in a Connector that is open, and no name
\* buffer was freed twice
C32_TransientStringsFreedOnce ==
    Returned =>
        /\ \A k \in 1..Len(last.transient) : last.transient[k] = 1
        /\ Len(last.transient) \in {0, TransientStrings(last.op)}
        /\ last.calls # <<>> => Len(last.transient) = TransientStrings(last.op)
        /\ \A b \in DOMAIN heap :
              /\ heap[b] <= 1
              /\ heap[b] = 0 => /\ native # "nil"
                                /\ b \in NameBufs(Inputs) \cup NameBufs(Outputs)

\* a SetString that the native layer refused has freed its field name and its
\* value, and the name buffer of a registered handle is still allocated
C32_Witness ==
    /\ last.op = "SetString"
    /\ last.err \notin {NoErr, ErrPanic}
    /\ last.calls # <<>>
    /\ last.transient = <<1, 1>>
    /\ \E b \in DOMAIN heap : heap[b] = 0

----------------------------------------------------------------------------
(* Strings returned by the native layer *)

\* the operations that receive a string from the native layer
StringOps ==
    {"GetString", "GetJSON", "Get", "GetMatchedPublications", "GetMatchedSubscriptions"}
        \cup MemberGetters

\* the RTI_Connector_free_string calls among calls
FreeStringCalls(calls) ==
    {k \in DOMAIN calls : calls[k].fn = "RTI_Connector_free_string"}

----------------------------------------------------------------------------
(* Ownership of the Connector's state *)

\* the operations of the Connector that change its root handle, its
\* collections or its name buffers
ConnectorChanging == {"NewConnector", "GetInput", "GetOutput", "Delete"}

\* C34: an operation of an Input, an Output, a Samples, an Infos or an
\* Instance, whatever it returned, leaves the root handle of the Connector,
\* its Inputs and Outputs collections and the count of frees of every name
\* buffer as they were when it started; so does Connector.Wait
C34_ChildrenLeaveConnectorAlone ==
    last.op \notin ConnectorChanging \cup {"none"} =>
        /\ native = last.pre.native
        /\ Inputs = last.pre.Inputs
        /\ Outputs = last.pre.Outputs
        /\ heap = last.pre.heap
        /\ destroyCount = last.pre.destroyCount

\* a child operation reached the native layer on an open Connector that has
\* an Input and an Output registered, and returned
C34_Witness ==
    /\ last.op \in {"Write", "Read", "Take", "ReturnLoan", "SetString", "GetString", "IsValid"}
    /\ last.calls # <<>>
    /\ Returned
    /\ native = "live"
    /\ Inputs # <<>> /\ Outputs # <<>>
    /\ \E b \in DOMAIN heap : heap[b] = 0

----------------------------------------------------------------------------
(* Waiting for matches *)

WaitForMatchOps == {"WaitForSubscriptions", "WaitForPublications"}

\* C35: WaitForSubscriptions and WaitForPublications called with a nil
\* handle or on a deleted Connector return -1 and an error and make no
\* native call; otherwise they make the one native wait call and, when it
\* returns, return the match-count delta it reported with checkRetcode of its
\* status, which is ErrTimeout for a timeout
C35_WaitForMatches ==
    (last.op \in WaitForMatchOps /\ last.recv # ZeroRef) =>
        IF last.recv = 0 \/ last.pre.native = "nil"
        THEN /\ last.ret = -1
             /\ last.err \notin {NoErr, ErrPanic}
             /\ last.calls = <<>>
        ELSE /\ last.calls # <<>>
             /\ last.calls[1].fn \in {"RTI_Connector_wait_for_matched_subscription",
                                       "RTI_Connector_wait_for_matched_publication"}
             /\ Returned =>
                   /\ last.ret \in CountChanges
                   /\ last.err = checkRetcode(last.retcodes[1], last.errMsg)
                   /\ last.retcodes[1] = DDSRetCodeTimeout => last.err = ErrTimeout
                   /\ last.retcodes[1] = DDSRetCodeOK => last.err = NoErr

----------------------------------------------------------------------------
(* Indices *)

\* the accessors of Samples and Infos that take an index
IndexedOps ==
    NumericGetters \cup MemberGetters \cup {"GetBoolean", "GetString", "GetJSON", "Get", "IsValid"}

\* the last operation was an indexed accessor that reached the native layer
IndexedCall == last.op \in IndexedOps /\ last.calls # <<>>

\* the sample of the last Read or Take that the index of the last call
\* addresses, counting from 0
Addressed == sampleData[last.recv][last.args[1] + 1]

----------------------------------------------------------------------------
(* Write against Delete *)

\* goroutine g handed the native write a root handle that Delete had
\* destroyed or set to nil
DispatchedOnDeleted(g) == loc[g].handle \in {"stale", "nil"}

\* goroutine g has started and does not hold the mutex for its call
Unserialized(g) == pc[g] # "idle" /\ ~loc[g].locked

\* C37: a Write that dispatched its native call had passed its validity
\* check on a live root handle; it dispatched on a destroyed or nil root
\* handle only when a Delete destroyed the handle in between, which takes a
\* caller that runs outside the mutex, and a Write whose check found the
\* handle nil made no native call
C37_CheckThenDispatch ==
    \A g \in Goroutines :
        /\ loc[g].handle # "none" => loc[g].valid = "live"
        /\ loc[g].valid = "nil" => loc[g].handle = "none"
        /\ DispatchedOnDeleted(g) =>
              /\ destroyCount > 0
              /\ \E h \in Goroutines : Unserialized(h)

\* a Write passed its check on the live root handle and then dispatched the
\* native write on the handle a concurrent Delete had destroyed
C37_Witness ==
    \E g \in Goroutines :
        /\ loc[g].valid = "live"
        /\ DispatchedOnDeleted(g)
        /\ last.op = "Write" /\ last.calls # <<>>
        /\ last.calls[1].self \in {"stale", "nil"}

====
